---------------------------- MODULE Spec2Model ----------------------------
(***************************************************************************)
(* A model of the client-side controllers of static/js/main.js: the nav,   *)
(* the dashboard, the sections page, the students page with its modal and  *)
(* its Delete confirmation, the Mark-Attendance page, the attendance       *)
(* records page and the chat panel.                                        *)
(*                                                                         *)
(* Every event handler and every promise callback is one action.  A        *)
(* control of a page can be used while the page is the active one; a       *)
(* response arrives whatever page is shown.  The requests in flight are    *)
(* kept in issue order; a response may arrive for any of them.  What the   *)
(* server answers is an input: it is chosen when the response arrives.     *)
(*                                                                         *)
(* Next holds every action: the user goes from page to page.  A session    *)
(* is the application with the user staying on one page or one part of     *)
(* it: Init is the state right after the script has loaded and a nav click *)
(* has rendered the page of the session, and the Next of the session       *)
(* holds the actions of that part.  The properties are checked session by  *)
(* session.                                                                *)
(***************************************************************************)
EXTENDS Integers, Sequences, FiniteSets

\* ------------------------------------------------------------------ bounds

\* Students known to the server (their ids are 1..MaxStudents).
MaxStudents == 3

\* Requests of one page that may be in flight together.
MaxInFlight == 1

\* List fetches that may be in flight together in a session that races them.
MaxRacing == 2

\* ---------------------------------------------------------------- fixtures

\* `null` of a section id (an empty <select> value parses to null).
NoSection == 0

\* The sections the server offers in the section <select>: a server with
\* one section.
SectionIds == {1}

\* The value the date input is rendered with (today).
Today == "2026-10-29"

\* Values of a date input: cleared, or today.
DateValues == {"", Today}

\* Values of a session <select>.
SessionValues == {"morning", "afternoon"}

\* Status values a roster response may carry per student; "" is a missing one.
ServerStatuses == {"", "present", "absent", "late"}

\* Texts typed into the Mark-Attendance search box.
MarkSearchTexts == {<< >>, <<"A", "N">>}

Letters == <<"A", "b", "C", "d">>

Digits == <<"1", "2", "3", "4">>

Wrap(i) == ((i - 1) % 4) + 1

\* The roll number and the name the server holds for student i.
RollNoOf(i) == <<Letters[Wrap(i)], Digits[Wrap(i)]>>

NameOf(i) == <<Letters[Wrap(i)], "n">>

\* The students of a section, in the order the server lists them.
SectionOf(i) == IF i % 2 = 1 THEN 1 ELSE 2

RECURSIVE IdsFrom(_, _)
IdsFrom(i, sec) ==
    IF i > MaxStudents THEN << >>
    ELSE (IF SectionOf(i) = sec THEN <<i>> ELSE << >>) \o IdsFrom(i + 1, sec)

StudentIdsOf(sec) == IdsFrom(1, sec)

\* The bodies of a successful GET /api/attendance: no `students` field, or
\* the section's students, each with a status of the server's choosing.
RosterResponses(sec) ==
    LET ids == StudentIdsOf(sec) IN
    {<< >>} \cup
    { [k \in 1..Len(ids) |->
          [student_id |-> ids[k], roll_no |-> RollNoOf(ids[k]),
           name |-> NameOf(ids[k]), status |-> f[k]]]
      : f \in [1..Len(ids) -> ServerStatuses] }

\* ----------------------------------------------------------------- helpers

RemoveAt(s, i) == SubSeq(s, 1, i - 1) \o SubSeq(s, i + 1, Len(s))

\* String.prototype.toLowerCase, per character and per string.
LowerChar(c) ==
    CASE c = "A" -> "a"
      [] c = "C" -> "c"
      [] c = "N" -> "n"
      [] OTHER -> c

toLowerCase(s) == [k \in 1..Len(s) |-> LowerChar(s[k])]

\* hay.indexOf(needle) >= 0
Contains(hay, needle) ==
    \E k \in 0..(Len(hay) - Len(needle)) :
        SubSeq(hay, k + 1, k + Len(needle)) = needle

\* ------------------------------------------------------------------- state

VARIABLES
    view,                   \* the session a behaviour is: the part of the UI a
                            \*   session specification draws its events from
    activePage,             \* the page showPage made active last
    ev,                     \* the handler that ran last and the toasts it showed
    \* Mark-Attendance: DOM
    markSection, markDate, markSession,   \* values of the three controls
    markSearch,             \* value of #markSearch
    markSaveBtn,            \* #markSaveBtn: [disabled, html]
    markTbody,              \* rows of #markTbody: [id, text]
    markSummary,            \* #markSummary: [display, counts]
    markWarning,            \* #markWarning is displayed
    \* Mark-Attendance: module variables
    currentMarkSectionId, currentMarkDate, currentMarkSession,
    markAttendanceStudents, markEditingMode,
    \* Mark-Attendance: requests in flight
    markLoads,              \* GET /api/attendance: [section_id, date, session]
    markSaves,              \* POST /api/attendance: [date, section_id, session,
                            \*   absent_ids], and btnInPage: the button `btn` its
                            \*   handlers hold is still #markSaveBtn of the page
    \* Students: module variables
    studentsPage, studentsPerPage, studentsTotal, studentsSectionId,
    studentsSearch, studentsSortBy,
    \* Students: DOM
    studentsSearchValue,    \* value of #studentsSearch
    studentsSectionFilterValue, \* value of #studentsSectionFilter
    studentsPerPageValue,   \* value of #studentsPerPage
    studentsTbody,          \* #studentsTbody: [kind, list]
    studentsPagination,     \* #studentsPagination: [shown, total, buttons, page, totalPages]
    \* Students: the loadStudentsList chains in flight: [stage, q, list]
    studentsReqs,
    \* Records: module variables
    recordsPage, recordsPerPage, recordsSearch,
    \* Records: DOM (the values of #recordsSection, #recordsDate, #recordsSession)
    recordsSection, recordsDate, recordsSession,
    recordsSearchValue,     \* value of #recordsSearch
    recordsPerPageValue,    \* value of #recordsPerPage
    recordsTbody,           \* #recordsTbody: [kind, list]
    recordsPagination,      \* #recordsPagination: [shown, total, buttons, page, totalPages]
    \* Records: GET /api/attendance/records in flight
    recordsReqs,
    \* Chat formatter: one call of formatAiMessage
    fmtRaw,                 \* its argument: [null, text]
    fmtOut,                 \* its array `out` when it returns
    fmtHtml,                \* the string it returns
    fmtReturned,            \* the call has returned
    \* Chat panel
    chatInput,              \* value of #chatInput
    chatMessages,           \* the messages of #chatMessages: [role, body]
    chatLoading,            \* #chatLoadingEl: [created, display]
    chatReqs,               \* POST /api/chat in flight: [question]
    \* Students: the two modals
    modalStudent,           \* #modalStudent and its form: [show, title, options,
                            \*   studentId, section, rollNo, name], and as
                            \*   history openedFor: the id it was last opened
                            \*   with (NoStudentId: by Add Student)
    modalConfirm,           \* #modalConfirm: [show, title, body], and the onclick
                            \*   of #btnConfirmOk: deletes (a student, a section,
                            \*   or "none": no handler yet) and the id it closes over
    modalSectionsReqs,      \* GET /api/sections for #studentSection in flight
    studentGets,            \* GET /api/students/<id> in flight: [id]
    studentWrites,          \* POST, PATCH, DELETE in flight: [method, id, body]
    \* Sections
    sectionsCache,          \* the module variable: the ids of the sections
    sectionCards,           \* #sectionCards: [kind, list]
    sectionsReqs,           \* GET /api/sections?stats=1 in flight
    modalSection,           \* #modalSection and its form: [show, title, name, editId]
    sectionWrites,          \* POST, PATCH, DELETE in flight: [method, id, name]
    \* Dashboard and settings
    dashboardCards,         \* #dashboardCards: [kind, values]
    dashboardReqs,          \* GET /api/dashboard/stats in flight
    settingsRendered,       \* #pageSettings holds the placeholder
    \* Mark Attendance: history
    markRosterKey           \* the request whose response markAttendanceStudents
                            \*   was built from (NoKey: none yet)

markDom == <<markSection, markDate, markSession, markSearch, markSaveBtn,
             markTbody, markSummary, markWarning>>

markJs == <<currentMarkSectionId, currentMarkDate, currentMarkSession,
            markAttendanceStudents, markEditingMode>>

markVars == <<markDom, markJs, markLoads, markSaves, markRosterKey>>

studentsQuery == <<studentsPage, studentsPerPage, studentsSectionId,
                   studentsSearch, studentsSortBy>>

\* The three controls of the students page that feed module variables.
studentsControls == <<studentsSearchValue, studentsSectionFilterValue,
                      studentsPerPageValue>>

studentsVars == <<studentsQuery, studentsControls, studentsTotal, studentsTbody,
                  studentsPagination, studentsReqs>>

recordsQuery == <<recordsPage, recordsPerPage, recordsSearch,
                  recordsSection, recordsDate, recordsSession>>

\* The two controls of the records page that feed module variables.
recordsControls == <<recordsSearchValue, recordsPerPageValue>>

recordsVars == <<recordsQuery, recordsControls, recordsTbody, recordsPagination,
                 recordsReqs>>

fmtVars == <<fmtRaw, fmtOut, fmtHtml, fmtReturned>>

chatVars == <<chatInput, chatMessages, chatLoading, chatReqs>>

sectionsVars == <<sectionsCache, sectionCards, sectionsReqs, modalSection,
                  sectionWrites>>

editVars == <<modalStudent, modalConfirm, modalSectionsReqs, studentGets,
              studentWrites, sectionsVars>>

\* What the three pages leave alone.
panelVars == <<fmtVars, chatVars, editVars>>

dashVars == <<dashboardCards, dashboardReqs, settingsRendered>>

vars == <<view, activePage, ev, dashVars, markVars, studentsVars, recordsVars,
          panelVars>>

\* A toast(message, type) call.
ToastSelect == [message |-> "Select section and date.", type |-> "error"]

\* toast(message): the type defaults to 'success'.
ToastSuccess(message) == [message |-> message, type |-> "success"]

ToastSaved == ToastSuccess("Attendance saved successfully.")

\* toast(err.message, 'error'): the message is the server's.
ToastErr == [message |-> "err.message", type |-> "error"]

Event(op, toasts) == [op |-> op, toasts |-> toasts]

\* The handler that renders the response to a list fetch: q is the request
\* it answers, list the rows of the response.
ResponseEvent(op, q, list) ==
    [op |-> op, toasts |-> << >>, q |-> q, list |-> list]

\* ---------------------------------------------------------- Mark-Attendance

\* The counts of an empty summary panel (nothing was written into it yet).
NoCounts == [total |-> -1, present |-> -1, absent |-> -1]

\* The rows renderMarkTable writes into #markTbody.
renderMarkTable(students, searchValue) ==
    LET search == toLowerCase(searchValue)
        Match(s) == \/ Contains(toLowerCase(s.roll_no), search)
                    \/ Contains(toLowerCase(s.name), search)
        list == IF search # << >> THEN SelectSeq(students, Match) ELSE students
    IN  [k \in 1..Len(list) |->
            [id |-> list[k].student_id,
             text |-> IF list[k].status = "present" THEN "Present" ELSE "Absent"]]

\* The summary panel updateMarkSummary writes.
updateMarkSummary(students) ==
    LET total == Len(students)
        Present(s) == s.status = "present"
        present == Len(SelectSeq(students, Present))
        absent == total - present
    IN  [display |-> total # 0,
         counts |-> [total |-> total, present |-> present, absent |-> absent]]

\* Mutant of AbsentIds: every entry that is not present is sent.
AbsentIds_NotPresent(students) ==
    LET NotPresent(s) == s.status # "present"
        list == SelectSeq(students, NotPresent)
    IN  [k \in 1..Len(list) |-> list[k].student_id]

\* The absent_ids of a save request.
AbsentIds(students) ==
    LET Absent(s) == s.status = "absent"
        list == SelectSeq(students, Absent)
    IN  [k \in 1..Len(list) |-> list[k].student_id]

\* The sessions on the Mark-Attendance page; in "markRace" its requests race
\* each other.
MarkViews == {"mark", "markRace"}

\* The requests the Mark-Attendance page may have in flight together.
MarkInFlight == IF view = "markRace" THEN MaxRacing ELSE MaxInFlight

\* The key of no request: the roster is the declared [].
NoKey == [section_id |-> NoSection, date |-> "", session |-> ""]

\* The roster a successful load builds from the response.
LoadedRoster(data) ==
    [k \in 1..Len(data) |->
        [student_id |-> data[k].student_id, roll_no |-> data[k].roll_no,
         name |-> data[k].name,
         status |-> IF data[k].status # "" THEN data[k].status ELSE "present"]]

\* Mutant of EditingModeOf: only an absent entry sets the flag.
EditingModeOf_AbsentOnly(students) ==
    \E k \in 1..Len(students) : students[k].status = "absent"

\* markAttendanceStudents.some(s => s.status !== 'present')
EditingModeOf(students) ==
    \E k \in 1..Len(students) : students[k].status # "present"

\* Mutant of loadMarkAttendance: the key is recorded before the controls
\* are validated.
loadMarkAttendance_KeyBeforeValidation(op, btn, toasts, inFlight) ==
    LET sectionId == markSection
        dateStr == markDate
        session == markSession
    IN  /\ currentMarkSectionId' = sectionId
        /\ currentMarkDate' = dateStr
        /\ currentMarkSession' = session
        /\ IF sectionId = NoSection \/ dateStr = ""
           THEN /\ ev' = Event(op, Append(toasts, ToastSelect))
                /\ markSaveBtn' = btn
                /\ UNCHANGED markLoads
           ELSE /\ inFlight + Len(markLoads) + Len(markSaves) < MarkInFlight
                /\ ev' = Event(op, toasts)
                /\ markSaveBtn' = [btn EXCEPT !.disabled = TRUE]
                /\ markLoads' = Append(markLoads,
                       [section_id |-> sectionId, date |-> dateStr,
                        session |-> session])

\* loadMarkAttendance(), called with the save button and the toasts of the
\* caller: validates the controls, records the key, disables save and
\* issues the roster request.  inFlight is what the caller adds to the
\* number of requests in flight (the request it has just seen answered).
loadMarkAttendance(op, btn, toasts, inFlight) ==
    LET sectionId == markSection
        dateStr == markDate
        session == markSession
    IN  IF sectionId = NoSection \/ dateStr = ""
        THEN /\ ev' = Event(op, Append(toasts, ToastSelect))
             /\ markSaveBtn' = btn
             /\ UNCHANGED <<currentMarkSectionId, currentMarkDate,
                            currentMarkSession, markLoads>>
        ELSE /\ inFlight + Len(markLoads) + Len(markSaves) < MarkInFlight
             /\ ev' = Event(op, toasts)
             /\ currentMarkSectionId' = sectionId
             /\ currentMarkDate' = dateStr
             /\ currentMarkSession' = session
             /\ markSaveBtn' = [btn EXCEPT !.disabled = TRUE]
             /\ markLoads' = Append(markLoads,
                    [section_id |-> sectionId, date |-> dateStr,
                     session |-> session])

\* #markLoadBtn click.
MarkLoadClick ==
    /\ activePage = "mark"
    /\ loadMarkAttendance("markLoadClick", markSaveBtn, << >>, 0)
    /\ UNCHANGED <<view, dashVars, activePage, panelVars, studentsVars, recordsVars, markRosterKey, markSection, markDate, markSession, markSearch,
                   markTbody, markSummary, markWarning,
                   markAttendanceStudents, markEditingMode, markSaves>>

\* The roster request i resolves with `data`.
MarkLoadOk(i, data) ==
    /\ i \in 1..Len(markLoads)
    /\ data \in RosterResponses(markLoads[i].section_id)
    /\ markLoads' = RemoveAt(markLoads, i)
    /\ markAttendanceStudents' = LoadedRoster(data)
    /\ markRosterKey' = markLoads[i]
    /\ markEditingMode' = EditingModeOf(markAttendanceStudents')
    /\ markWarning' = markEditingMode'
    /\ markTbody' = renderMarkTable(markAttendanceStudents', markSearch)
    /\ markSummary' = updateMarkSummary(markAttendanceStudents')
    /\ markSaveBtn' = [markSaveBtn EXCEPT !.disabled = FALSE]
    /\ ev' = Event("markLoadOk", << >>)
    /\ UNCHANGED <<view, dashVars, activePage, panelVars, studentsVars, recordsVars, markSection, markDate, markSession, markSearch,
                   currentMarkSectionId, currentMarkDate, currentMarkSession,
                   markSaves>>

\* The roster request i is rejected.
MarkLoadFail(i) ==
    /\ i \in 1..Len(markLoads)
    /\ markLoads' = RemoveAt(markLoads, i)
    /\ markSaveBtn' = [markSaveBtn EXCEPT !.disabled = FALSE]
    /\ ev' = Event("markLoadFail", <<ToastErr>>)
    /\ UNCHANGED <<view, dashVars, activePage, panelVars, studentsVars, recordsVars, markRosterKey, markSection, markDate, markSession, markSearch,
                   markTbody, markSummary, markWarning, markJs, markSaves>>

\* What the onchange handler shared by the three controls does.
MarkControlChanged ==
    /\ markSaveBtn' = [markSaveBtn EXCEPT !.disabled = TRUE]
    /\ markTbody' = << >>
    /\ markSummary' = [markSummary EXCEPT !.display = FALSE]
    /\ ev' = Event("markControlChange", << >>)
    /\ UNCHANGED <<view, dashVars, activePage, panelVars, studentsVars, recordsVars, markRosterKey, markSearch, markWarning, markJs, markLoads, markSaves>>

\* The user picks another section.
MarkSectionChange(v) ==
    /\ activePage = "mark"
    /\ v \in SectionIds \cup {NoSection}
    /\ v # markSection
    /\ markSection' = v
    /\ UNCHANGED <<markDate, markSession>>
    /\ MarkControlChanged

\* The user picks another date, or clears it.
MarkDateChange(v) ==
    /\ activePage = "mark"
    /\ v \in DateValues
    /\ v # markDate
    /\ markDate' = v
    /\ UNCHANGED <<markSection, markSession>>
    /\ MarkControlChanged

\* The user picks the other session.
MarkSessionChange(v) ==
    /\ activePage = "mark"
    /\ v \in SessionValues
    /\ v # markSession
    /\ markSession' = v
    /\ UNCHANGED <<markSection, markDate>>
    /\ MarkControlChanged

\* Mutant of filterMarkTable: the summary is written again, from the rows
\* the filter keeps.
filterMarkTable_Recount(v) ==
    /\ activePage = "mark"
    /\ v \in MarkSearchTexts
    /\ v # markSearch
    /\ markSearch' = v
    /\ markTbody' = renderMarkTable(markAttendanceStudents, v)
    /\ markSummary' =
          LET shown == {k \in 1..Len(markAttendanceStudents) :
                           \E r \in 1..Len(markTbody') :
                              markTbody'[r].id = markAttendanceStudents[k].student_id}
              present == {k \in shown : markAttendanceStudents[k].status = "present"}
          IN  [display |-> shown # {},
               counts |-> [total |-> Cardinality(shown),
                           present |-> Cardinality(present),
                           absent |-> Cardinality(shown) - Cardinality(present)]]
    /\ ev' = Event("filterMarkTable", << >>)
    /\ UNCHANGED <<view, dashVars, activePage, panelVars, studentsVars, recordsVars, markRosterKey, markSection, markDate,
                   markSession, markSaveBtn, markWarning, markJs, markLoads,
                   markSaves>>

\* #markSearch input: filterMarkTable.
filterMarkTable(v) ==
    /\ activePage = "mark"
    /\ v \in MarkSearchTexts
    /\ v # markSearch
    /\ markSearch' = v
    /\ markTbody' = renderMarkTable(markAttendanceStudents, v)
    /\ ev' = Event("filterMarkTable", << >>)
    /\ UNCHANGED <<view, dashVars, activePage, panelVars, studentsVars, recordsVars, markRosterKey, markSection, markDate, markSession, markSaveBtn,
                   markSummary, markWarning, markJs, markLoads, markSaves>>

\* The status a click on a status button gives the entry.
Toggled(status) == IF status = "present" THEN "absent" ELSE "present"

\* A click on the status button of row k of #markTbody.
MarkToggle(k) ==
    /\ activePage = "mark"
    /\ k \in 1..Len(markTbody)
    /\ LET id == markTbody[k].id
           found == {j \in 1..Len(markAttendanceStudents) :
                        markAttendanceStudents[j].student_id = id}
       IN  IF found # {}
           THEN LET j == CHOOSE x \in found : \A y \in found : x <= y
                    st == Toggled(markAttendanceStudents[j].status)
                IN  /\ markAttendanceStudents' =
                           [markAttendanceStudents EXCEPT ![j].status = st]
                    /\ markTbody' = [markTbody EXCEPT ![k].text =
                           IF st = "present" THEN "Present" ELSE "Absent"]
                    /\ markSummary' = updateMarkSummary(markAttendanceStudents')
           ELSE UNCHANGED <<markAttendanceStudents, markTbody, markSummary>>
    /\ ev' = Event("markToggle", << >>)
    /\ UNCHANGED <<view, dashVars, activePage, panelVars, studentsVars, recordsVars, markRosterKey, markSection, markDate, markSession, markSearch,
                   markSaveBtn, markWarning, currentMarkSectionId,
                   currentMarkDate, currentMarkSession, markEditingMode,
                   markLoads, markSaves>>

\* Mutant of MarkAll: only the entries displayed under the text filter are
\* set.
MarkAll_VisibleOnly(status) ==
    /\ activePage = "mark"
    /\ status \in {"present", "absent"}
    /\ markAttendanceStudents' =
           [k \in 1..Len(markAttendanceStudents) |->
               IF \E j \in 1..Len(markTbody) :
                     markTbody[j].id = markAttendanceStudents[k].student_id
               THEN [markAttendanceStudents[k] EXCEPT !.status = status]
               ELSE markAttendanceStudents[k]]
    /\ markTbody' = renderMarkTable(markAttendanceStudents', markSearch)
    /\ markSummary' = updateMarkSummary(markAttendanceStudents')
    /\ ev' = Event(IF status = "present" THEN "markAllPresent" ELSE "markAllAbsent",
                   << >>)
    /\ UNCHANGED <<view, dashVars, activePage, panelVars, studentsVars, recordsVars, markRosterKey, markSection, markDate, markSession, markSearch,
                   markSaveBtn, markWarning, currentMarkSectionId,
                   currentMarkDate, currentMarkSession, markEditingMode,
                   markLoads, markSaves>>

\* #markAllPresent / #markAllAbsent click.
MarkAll(status) ==
    /\ activePage = "mark"
    /\ status \in {"present", "absent"}
    /\ markAttendanceStudents' =
           [k \in 1..Len(markAttendanceStudents) |->
               [markAttendanceStudents[k] EXCEPT !.status = status]]
    /\ markTbody' = renderMarkTable(markAttendanceStudents', markSearch)
    /\ markSummary' = updateMarkSummary(markAttendanceStudents')
    /\ ev' = Event(IF status = "present" THEN "markAllPresent" ELSE "markAllAbsent",
                   << >>)
    /\ UNCHANGED <<view, dashVars, activePage, panelVars, studentsVars, recordsVars, markRosterKey, markSection, markDate, markSession, markSearch,
                   markSaveBtn, markWarning, currentMarkSectionId,
                   currentMarkDate, currentMarkSession, markEditingMode,
                   markLoads, markSaves>>

\* saveMarkAttendance()
saveMarkAttendance(op) ==
    IF currentMarkSectionId = NoSection \/ currentMarkDate = ""
          \/ currentMarkSession = ""
    THEN /\ ev' = Event(op, << >>)
         /\ UNCHANGED <<view, dashVars, activePage, panelVars, studentsVars, recordsVars, markVars>>
    ELSE /\ Len(markLoads) + Len(markSaves) < MarkInFlight
         /\ markSaveBtn' = [disabled |-> TRUE, html |-> "Saving"]
         /\ markSaves' = Append(markSaves,
                [date |-> currentMarkDate, section_id |-> currentMarkSectionId,
                 session |-> currentMarkSession,
                 absent_ids |-> AbsentIds(markAttendanceStudents),
                 btnInPage |-> TRUE])
         /\ ev' = Event(op, << >>)
         /\ UNCHANGED <<view, dashVars, activePage, panelVars, studentsVars, recordsVars, markRosterKey, markSection, markDate, markSession, markSearch,
                        markTbody, markSummary, markWarning, markJs, markLoads>>

\* #markSaveBtn click (a disabled button does not fire it).
MarkSaveClick ==
    /\ activePage = "mark"
    /\ ~markSaveBtn.disabled
    /\ saveMarkAttendance("markSaveClick")

\* Ctrl+S: the keydown listener of the document.
MarkCtrlS ==
    /\ IF ~markSaveBtn.disabled
       THEN saveMarkAttendance("markCtrlS")
       ELSE /\ ev' = Event("markCtrlS", << >>)
            /\ UNCHANGED <<view, dashVars, activePage, panelVars, studentsVars, recordsVars, markVars>>

\* What restoring `btn` leaves of #markSaveBtn: `btn` is the element
\* saveMarkAttendance found, which a later renderMarkAttendance has replaced
\* in the page.
RestoredBtn(req) ==
    IF req.btnInPage THEN [disabled |-> FALSE, html |-> "Save Attendance"]
    ELSE markSaveBtn

\* The save request i resolves: `btn` is restored and the roster is
\* loaded again.
MarkSaveOk(i) ==
    /\ i \in 1..Len(markSaves)
    /\ markSaves' = RemoveAt(markSaves, i)
    /\ loadMarkAttendance("markSaveOk", RestoredBtn(markSaves[i]),
                          <<ToastSaved>>, -1)
    /\ UNCHANGED <<view, dashVars, activePage, panelVars, studentsVars, recordsVars, markRosterKey, markSection, markDate, markSession, markSearch,
                   markTbody, markSummary, markWarning,
                   markAttendanceStudents, markEditingMode>>

\* The save request i is rejected.
MarkSaveFail(i) ==
    /\ i \in 1..Len(markSaves)
    /\ markSaves' = RemoveAt(markSaves, i)
    /\ markSaveBtn' = RestoredBtn(markSaves[i])
    /\ ev' = Event("markSaveFail", <<ToastErr>>)
    /\ UNCHANGED <<view, dashVars, activePage, panelVars, studentsVars, recordsVars, markRosterKey, markSection, markDate, markSession, markSearch,
                   markTbody, markSummary, markWarning, markJs, markLoads>>

\* A click on the nav item of the page: showPage('mark') runs
\* renderMarkAttendance again.  The page is written anew; the module
\* variables and the requests in flight stay, and the save requests in
\* flight keep the button of the page they were issued from.
ShowPageMark ==
    /\ markSection' = NoSection
    /\ markDate' = Today
    /\ markSession' = "morning"
    /\ markSearch' = << >>
    /\ markSaveBtn' = [disabled |-> TRUE, html |-> "Save Attendance"]
    /\ markTbody' = << >>
    /\ markSummary' = [display |-> FALSE, counts |-> NoCounts]
    /\ markWarning' = FALSE
    /\ markSaves' = [i \in 1..Len(markSaves) |->
                        [markSaves[i] EXCEPT !.btnInPage = FALSE]]
    /\ activePage' = "mark"
    /\ ev' = Event("showPageMark", << >>)
    /\ UNCHANGED <<view, dashVars, panelVars, studentsVars, recordsVars, markRosterKey,
                   markJs, markLoads>>

\* The state renderMarkAttendance leaves, with the module variables as
\* declared.
InitMark ==
    /\ markSection = NoSection
    /\ markDate = Today
    /\ markSession = "morning"
    /\ markSearch = << >>
    /\ markSaveBtn = [disabled |-> TRUE, html |-> "Save Attendance"]
    /\ markTbody = << >>
    /\ markSummary = [display |-> FALSE, counts |-> NoCounts]
    /\ markWarning = FALSE
    /\ currentMarkSectionId = NoSection
    /\ currentMarkDate = ""
    /\ currentMarkSession = ""
    /\ markAttendanceStudents = << >>
    /\ markEditingMode = FALSE
    /\ markLoads = << >>
    /\ markSaves = << >>
    /\ markRosterKey = NoKey

NextMark ==
    \/ MarkLoadClick
    \/ \E i \in 1..Len(markLoads) :
          \E data \in RosterResponses(markLoads[i].section_id) : MarkLoadOk(i, data)
    \/ \E i \in 1..Len(markLoads) : MarkLoadFail(i)
    \/ \E v \in SectionIds \cup {NoSection} : MarkSectionChange(v)
    \/ \E v \in DateValues : MarkDateChange(v)
    \/ \E v \in SessionValues : MarkSessionChange(v)
    \/ \E v \in MarkSearchTexts : filterMarkTable(v)
    \/ \E k \in 1..Len(markTbody) : MarkToggle(k)
    \/ \E status \in {"present", "absent"} : MarkAll(status)
    \/ MarkSaveClick
    \/ MarkCtrlS
    \/ \E i \in 1..Len(markSaves) : MarkSaveOk(i)
    \/ \E i \in 1..Len(markSaves) : MarkSaveFail(i)
    \/ activePage = "mark" /\ ShowPageMark


\* ------------------------------------------------------------ list views

\* The options of the page-size <select> of both list views.
PerPageChoices == {10, 25, 50}

\* The `total` a list response may carry; 0 also stands for a missing one.
Totals == {0, 11, 26}

\* The sessions in which the fetches of a list race each other.
RacingViews == {"studentsRace", "recordsRace"}

\* The list fetches a session may have in flight together.
ListInFlight == IF view \in RacingViews THEN MaxRacing ELSE MaxInFlight

\* Texts typed into the search box of a list view.
ListSearchTexts == {"", "a"}

\* The data-sort attributes of the two sort buttons.
SortColumns == {"roll_no", "name"}

\* The rows a list response may carry (ids); << >> also stands for a
\* missing list.
RowLists == {<< >>, <<1, 2>>}

\* Math.ceil(total / perPage) || 1
TotalPages(total, perPage) ==
    LET n == (total + perPage - 1) \div perPage
    IN  IF n = 0 THEN 1 ELSE n

\* An empty pagination bar.
NoPagination ==
    [shown |-> FALSE, total |-> 0, buttons |-> FALSE, page |-> 0, totalPages |-> 0]

\* Mutant of Pagination: the two buttons are written whatever the number of
\* pages.
Pagination_AlwaysButtons(total, page, perPage) ==
    [shown |-> TRUE, total |-> total, buttons |-> TRUE,
     page |-> page, totalPages |-> TotalPages(total, perPage)]

\* The pagination bar a successful response writes: the total, and past one
\* page the two buttons around "Page <page> of <totalPages>".
Pagination(total, page, perPage) ==
    LET totalPages == TotalPages(total, perPage)
    IN  IF totalPages > 1
        THEN [shown |-> TRUE, total |-> total, buttons |-> TRUE,
              page |-> page, totalPages |-> totalPages]
        ELSE [shown |-> TRUE, total |-> total, buttons |-> FALSE,
              page |-> 0, totalPages |-> 0]

EmptyTbody == [kind |-> "empty", list |-> << >>]

\* '<tr><td colspan=..>Failed to load.</td></tr>'
FailedTbody == [kind |-> "failed", list |-> << >>]

\* '<tr><td colspan="3">Select section and date, then click Load.</td></tr>'
PromptTbody == [kind |-> "prompt", list |-> << >>]

Rows(list) == [kind |-> "rows", list |-> list]

\* ---------------------------------------------------------------- Students

\* The sessions with the list controls of the students page.
StudentsListViews == {"students", "studentsRace"}

\* The sessions on the students page: with the list controls, with the
\* Add/Edit modal, with the Delete confirmation.
StudentsViews == StudentsListViews \cup {"studentForm", "confirm"}

\* The query string loadStudentsList builds from the module variables.
StudentsQueryOf(page, perPage, sortBy, sectionId, search) ==
    [page |-> page, per_page |-> perPage, sort_by |-> sortBy,
     section_id |-> sectionId, search |-> search]

\* Mutant of loadStudentsList: the query string is built from the module
\* variables as they were before the handler changed them.
loadStudentsList_StaleQuery(page, perPage, sortBy, sectionId, search) ==
    /\ Len(studentsReqs) < ListInFlight
    /\ studentsReqs' = Append(studentsReqs,
           [stage |-> "students",
            q |-> [page |-> studentsPage, per_page |-> studentsPerPage,
                   sort_by |-> studentsSortBy, section_id |-> studentsSectionId,
                   search |-> studentsSearch],
            list |-> << >>])

\* loadStudentsList(), with the query state the handler has just set.
loadStudentsList(page, perPage, sortBy, sectionId, search) ==
    /\ Len(studentsReqs) < ListInFlight
    /\ studentsReqs' = Append(studentsReqs,
           [stage |-> "students",
            q |-> StudentsQueryOf(page, perPage, sortBy, sectionId, search),
            list |-> << >>])

\* #studentsSearch input.
StudentsSearchInput(v) ==
    /\ activePage = "students"
    /\ v \in ListSearchTexts
    /\ v # studentsSearchValue
    /\ studentsSearchValue' = v
    /\ studentsSearch' = v
    /\ studentsPage' = 1
    /\ loadStudentsList(1, studentsPerPage, studentsSortBy, studentsSectionId, v)
    /\ ev' = Event("studentsSearchInput", << >>)
    /\ UNCHANGED <<view, dashVars, activePage, panelVars, markVars, recordsVars, studentsSectionFilterValue, studentsPerPageValue, studentsPerPage, studentsTotal,
                   studentsSectionId, studentsSortBy, studentsTbody,
                   studentsPagination>>

\* #studentsSectionFilter change.
StudentsSectionChange(v) ==
    /\ activePage = "students"
    /\ v \in SectionIds \cup {NoSection}
    /\ v # studentsSectionFilterValue
    /\ studentsSectionFilterValue' = v
    /\ studentsSectionId' = v
    /\ studentsPage' = 1
    /\ loadStudentsList(1, studentsPerPage, studentsSortBy, v, studentsSearch)
    /\ ev' = Event("studentsSectionChange", << >>)
    /\ UNCHANGED <<view, dashVars, activePage, panelVars, markVars, recordsVars, studentsSearchValue, studentsPerPageValue, studentsPerPage, studentsTotal,
                   studentsSearch, studentsSortBy, studentsTbody,
                   studentsPagination>>

\* #studentsPerPage change.
StudentsPerPageChange(v) ==
    /\ activePage = "students"
    /\ v \in PerPageChoices
    /\ v # studentsPerPageValue
    /\ studentsPerPageValue' = v
    /\ studentsPerPage' = v
    /\ studentsPage' = 1
    /\ loadStudentsList(1, v, studentsSortBy, studentsSectionId, studentsSearch)
    /\ ev' = Event("studentsPerPageChange", << >>)
    /\ UNCHANGED <<view, dashVars, activePage, panelVars, markVars, recordsVars, studentsSearchValue, studentsSectionFilterValue, studentsTotal, studentsSectionId,
                   studentsSearch, studentsSortBy, studentsTbody,
                   studentsPagination>>

\* Mutant of StudentsSortClick: the sort click resets the page as the
\* other controls do.
StudentsSortClick_ResetsPage(v) ==
    /\ activePage = "students"
    /\ v \in SortColumns
    /\ studentsSortBy' = v
    /\ studentsPage' = 1
    /\ Len(studentsReqs) < ListInFlight
    /\ studentsReqs' = Append(studentsReqs,
           [stage |-> "students",
            q |-> [page |-> 1, per_page |-> studentsPerPage, sort_by |-> v,
                   section_id |-> studentsSectionId, search |-> studentsSearch],
            list |-> << >>])
    /\ ev' = Event("studentsSortClick", << >>)
    /\ UNCHANGED <<view, dashVars, activePage, panelVars, markVars, recordsVars, studentsControls, studentsPerPage, studentsTotal,
                   studentsSectionId, studentsSearch, studentsTbody,
                   studentsPagination>>

\* A click on a .sort-btn.
StudentsSortClick(v) ==
    /\ activePage = "students"
    /\ v \in SortColumns
    /\ studentsSortBy' = v
    /\ loadStudentsList(studentsPage, studentsPerPage, v, studentsSectionId,
                        studentsSearch)
    /\ ev' = Event("studentsSortClick", << >>)
    /\ UNCHANGED <<view, dashVars, activePage, panelVars, markVars, recordsVars, studentsControls, studentsPage, studentsPerPage,
                   studentsTotal, studentsSectionId, studentsSearch,
                   studentsTbody, studentsPagination>>

\* Mutant of PageAfter: the two buttons do not look at the boundaries.
PageAfter_NoBoundary(which, page, totalPages) ==
    IF which = "prev" THEN page - 1 ELSE page + 1

\* The page a click on Previous or Next of a pagination bar leads to;
\* totalPages is the one the bar was rendered with.
PageAfter(which, page, totalPages) ==
    IF which = "prev" /\ page > 1 THEN page - 1
    ELSE IF which = "next" /\ page < totalPages THEN page + 1
    ELSE page

\* A click on a .btn-page of #studentsPagination.
StudentsPageClick(which) ==
    /\ activePage = "students"
    /\ which \in {"prev", "next"}
    /\ studentsPagination.buttons
    /\ studentsPage' = PageAfter(which, studentsPage, studentsPagination.totalPages)
    /\ loadStudentsList(studentsPage', studentsPerPage, studentsSortBy,
                        studentsSectionId, studentsSearch)
    /\ ev' = Event(IF which = "prev" THEN "studentsPrev" ELSE "studentsNext", << >>)
    /\ UNCHANGED <<view, dashVars, activePage, panelVars, markVars, recordsVars, studentsControls, studentsPerPage, studentsTotal,
                   studentsSectionId, studentsSearch, studentsSortBy,
                   studentsTbody, studentsPagination>>

\* GET /api/students of chain i resolves: the total is stored and the
\* sections are requested.
StudentsOk(i, list, total) ==
    /\ i \in 1..Len(studentsReqs)
    /\ studentsReqs[i].stage = "students"
    /\ list \in RowLists
    /\ total \in Totals
    /\ studentsTotal' = total
    /\ studentsReqs' = [studentsReqs EXCEPT ![i].stage = "sections", ![i].list = list]
    /\ ev' = Event("studentsOk", << >>)
    /\ UNCHANGED <<view, dashVars, activePage, panelVars, markVars, recordsVars, studentsControls, studentsQuery, studentsTbody,
                   studentsPagination>>

\* GET /api/sections of chain i resolves: the table and the pagination bar
\* are rendered.
StudentsSectionsOk(i) ==
    /\ i \in 1..Len(studentsReqs)
    /\ studentsReqs[i].stage = "sections"
    /\ studentsReqs' = RemoveAt(studentsReqs, i)
    /\ studentsTbody' = Rows(studentsReqs[i].list)
    /\ studentsPagination' = Pagination(studentsTotal, studentsPage, studentsPerPage)
    /\ ev' = ResponseEvent("studentsSectionsOk", studentsReqs[i].q,
                            studentsReqs[i].list)
    /\ UNCHANGED <<view, dashVars, activePage, panelVars, markVars, recordsVars, studentsControls, studentsQuery, studentsTotal>>

\* Mutant of StudentsFail: the catch handler shows the failure and loads
\* the list again.
StudentsFail_Retries(i) ==
    /\ i \in 1..Len(studentsReqs)
    /\ studentsReqs' = Append(RemoveAt(studentsReqs, i),
           [stage |-> "students",
            q |-> StudentsQueryOf(studentsPage, studentsPerPage, studentsSortBy,
                                  studentsSectionId, studentsSearch),
            list |-> << >>])
    /\ studentsTbody' = FailedTbody
    /\ ev' = Event("studentsFail", << >>)
    /\ UNCHANGED <<view, dashVars, activePage, panelVars, markVars, recordsVars, studentsControls, studentsQuery, studentsTotal,
                   studentsPagination>>

\* Either request of chain i is rejected.
StudentsFail(i) ==
    /\ i \in 1..Len(studentsReqs)
    /\ studentsReqs' = RemoveAt(studentsReqs, i)
    /\ studentsTbody' = FailedTbody
    /\ ev' = Event("studentsFail", << >>)
    /\ UNCHANGED <<view, dashVars, activePage, panelVars, markVars, recordsVars, studentsControls, studentsQuery, studentsTotal,
                   studentsPagination>>

\* A click on the nav item of the page: showPage('students') runs
\* renderStudents again.  The page is written anew and the list is loaded
\* with the module variables, which stay as they are, as do the chains in
\* flight.
ShowPageStudents ==
    /\ view = "confirm" => sectionsReqs + Len(studentWrites) + Len(sectionWrites)
                               < MaxInFlight
    /\ studentsSearchValue' = ""
    /\ studentsSectionFilterValue' = NoSection
    /\ studentsPerPageValue' = 25
    /\ studentsTbody' = EmptyTbody
    /\ studentsPagination' = NoPagination
    /\ loadStudentsList(studentsPage, studentsPerPage, studentsSortBy,
                        studentsSectionId, studentsSearch)
    /\ activePage' = "students"
    /\ ev' = Event("showPageStudents", << >>)
    /\ UNCHANGED <<view, dashVars, panelVars, markVars, recordsVars, studentsQuery,
                   studentsTotal>>

\* The students page before renderStudents has run.
StudentsDeclared ==
    /\ studentsPage = 1
    /\ studentsPerPage = 25
    /\ studentsTotal = 0
    /\ studentsSectionId = NoSection
    /\ studentsSearch = ""
    /\ studentsSortBy = "roll_no"
    /\ studentsSearchValue = ""
    /\ studentsSectionFilterValue = NoSection
    /\ studentsPerPageValue = 25
    /\ studentsTbody = EmptyTbody
    /\ studentsPagination = NoPagination

\* The state renderStudents leaves: it has called loadStudentsList.
InitStudents ==
    /\ StudentsDeclared
    /\ studentsReqs = <<[stage |-> "students",
                         q |-> StudentsQueryOf(1, 25, "roll_no", NoSection, ""),
                         list |-> << >>]>>

NextStudents ==
    \/ \E v \in ListSearchTexts : StudentsSearchInput(v)
    \/ \E v \in SectionIds \cup {NoSection} : StudentsSectionChange(v)
    \/ \E v \in PerPageChoices : StudentsPerPageChange(v)
    \/ \E v \in SortColumns : StudentsSortClick(v)
    \/ \E which \in {"prev", "next"} : StudentsPageClick(which)
    \/ \E i \in 1..Len(studentsReqs) :
          \E list \in RowLists : \E total \in Totals :
             StudentsOk(i, list, total)
    \/ \E i \in 1..Len(studentsReqs) : StudentsSectionsOk(i)
    \/ \E i \in 1..Len(studentsReqs) : StudentsFail(i)
    \/ activePage = "students" /\ ShowPageStudents

\* ----------------------------------------------------------------- Records

\* The sessions on the records page.
RecordsViews == {"records", "recordsRace"}

\* loadRecords(), with the query state and the controls the handler has
\* just set: without a section or a date it writes the prompt row and
\* issues nothing.
loadRecords(page, perPage, search, sectionId, dateStr, session) ==
    IF sectionId = NoSection \/ dateStr = ""
    THEN /\ recordsTbody' = PromptTbody
         /\ UNCHANGED recordsReqs
    ELSE /\ Len(recordsReqs) < ListInFlight
         /\ recordsReqs' = Append(recordsReqs,
                [section_id |-> sectionId, date |-> dateStr, session |-> session,
                 page |-> page, per_page |-> perPage, search |-> search])
         /\ UNCHANGED recordsTbody

\* #recordsLoadBtn click.
RecordsLoadClick ==
    /\ activePage = "records"
    /\ loadRecords(recordsPage, recordsPerPage, recordsSearch,
                   recordsSection, recordsDate, recordsSession)
    /\ ev' = Event("recordsLoadClick", << >>)
    /\ UNCHANGED <<view, dashVars, activePage, panelVars, markVars, studentsVars, recordsControls, recordsQuery, recordsPagination>>

\* #recordsSection change.
RecordsSectionChange(v) ==
    /\ activePage = "records"
    /\ v \in SectionIds \cup {NoSection}
    /\ v # recordsSection
    /\ recordsSection' = v
    /\ recordsPage' = 1
    /\ loadRecords(1, recordsPerPage, recordsSearch, v, recordsDate, recordsSession)
    /\ ev' = Event("recordsSectionChange", << >>)
    /\ UNCHANGED <<view, dashVars, activePage, panelVars, markVars, studentsVars, recordsControls, recordsPerPage, recordsSearch,
                   recordsDate, recordsSession, recordsPagination>>

\* #recordsDate change.
RecordsDateChange(v) ==
    /\ activePage = "records"
    /\ v \in DateValues
    /\ v # recordsDate
    /\ recordsDate' = v
    /\ recordsPage' = 1
    /\ loadRecords(1, recordsPerPage, recordsSearch, recordsSection, v, recordsSession)
    /\ ev' = Event("recordsDateChange", << >>)
    /\ UNCHANGED <<view, dashVars, activePage, panelVars, markVars, studentsVars, recordsControls, recordsPerPage, recordsSearch,
                   recordsSection, recordsSession, recordsPagination>>

\* #recordsSession change.
RecordsSessionChange(v) ==
    /\ activePage = "records"
    /\ v \in SessionValues
    /\ v # recordsSession
    /\ recordsSession' = v
    /\ recordsPage' = 1
    /\ loadRecords(1, recordsPerPage, recordsSearch, recordsSection, recordsDate, v)
    /\ ev' = Event("recordsSessionChange", << >>)
    /\ UNCHANGED <<view, dashVars, activePage, panelVars, markVars, studentsVars, recordsControls, recordsPerPage, recordsSearch,
                   recordsSection, recordsDate, recordsPagination>>

\* #recordsSearch input.
RecordsSearchInput(v) ==
    /\ activePage = "records"
    /\ v \in ListSearchTexts
    /\ v # recordsSearchValue
    /\ recordsSearchValue' = v
    /\ recordsSearch' = v
    /\ recordsPage' = 1
    /\ loadRecords(1, recordsPerPage, v, recordsSection, recordsDate, recordsSession)
    /\ ev' = Event("recordsSearchInput", << >>)
    /\ UNCHANGED <<view, dashVars, activePage, panelVars, markVars, studentsVars, recordsPerPageValue, recordsPerPage, recordsSection,
                   recordsDate, recordsSession, recordsPagination>>

\* #recordsPerPage change.
RecordsPerPageChange(v) ==
    /\ activePage = "records"
    /\ v \in PerPageChoices
    /\ v # recordsPerPageValue
    /\ recordsPerPageValue' = v
    /\ recordsPerPage' = v
    /\ recordsPage' = 1
    /\ loadRecords(1, v, recordsSearch, recordsSection, recordsDate, recordsSession)
    /\ ev' = Event("recordsPerPageChange", << >>)
    /\ UNCHANGED <<view, dashVars, activePage, panelVars, markVars, studentsVars, recordsSearchValue, recordsSearch, recordsSection,
                   recordsDate, recordsSession, recordsPagination>>

\* A click on a .btn-page of #recordsPagination.
RecordsPageClick(which) ==
    /\ activePage = "records"
    /\ which \in {"prev", "next"}
    /\ recordsPagination.buttons
    /\ recordsPage' = PageAfter(which, recordsPage, recordsPagination.totalPages)
    /\ loadRecords(recordsPage', recordsPerPage, recordsSearch,
                   recordsSection, recordsDate, recordsSession)
    /\ ev' = Event(IF which = "prev" THEN "recordsPrev" ELSE "recordsNext", << >>)
    /\ UNCHANGED <<view, dashVars, activePage, panelVars, markVars, studentsVars, recordsControls, recordsPerPage, recordsSearch,
                   recordsSection, recordsDate, recordsSession, recordsPagination>>

\* The query state of the records page as a request carries it.
RecordsQueryOf(page, perPage, search, sectionId, dateStr, session) ==
    [section_id |-> sectionId, date |-> dateStr, session |-> session,
     page |-> page, per_page |-> perPage, search |-> search]

\* Mutant of RecordsOk: a response to a request that is not the one of the
\* current query state is dropped.
RecordsOk_DropsStale(i, list, total) ==
    /\ i \in 1..Len(recordsReqs)
    /\ list \in RowLists
    /\ total \in Totals
    /\ recordsReqs' = RemoveAt(recordsReqs, i)
    /\ IF recordsReqs[i] = RecordsQueryOf(recordsPage, recordsPerPage, recordsSearch,
                                         recordsSection, recordsDate, recordsSession)
       THEN /\ recordsTbody' = Rows(list)
            /\ recordsPagination' = Pagination(total, recordsPage, recordsPerPage)
       ELSE UNCHANGED <<recordsTbody, recordsPagination>>
    /\ ev' = ResponseEvent("recordsOk", recordsReqs[i], list)
    /\ UNCHANGED <<view, dashVars, activePage, panelVars, markVars, studentsVars, recordsControls, recordsQuery>>

\* The records request i resolves: the table and the pagination bar are
\* rendered.
RecordsOk(i, list, total) ==
    /\ i \in 1..Len(recordsReqs)
    /\ list \in RowLists
    /\ total \in Totals
    /\ recordsReqs' = RemoveAt(recordsReqs, i)
    /\ recordsTbody' = Rows(list)
    /\ recordsPagination' = Pagination(total, recordsPage, recordsPerPage)
    /\ ev' = ResponseEvent("recordsOk", recordsReqs[i], list)
    /\ UNCHANGED <<view, dashVars, activePage, panelVars, markVars, studentsVars, recordsControls, recordsQuery>>

\* The records request i is rejected.
RecordsFail(i) ==
    /\ i \in 1..Len(recordsReqs)
    /\ recordsReqs' = RemoveAt(recordsReqs, i)
    /\ recordsTbody' = FailedTbody
    /\ ev' = Event("recordsFail", << >>)
    /\ UNCHANGED <<view, dashVars, activePage, panelVars, markVars, studentsVars, recordsControls, recordsQuery, recordsPagination>>

\* A click on the nav item of the page: showPage('records') runs
\* renderRecords again.  The page is written anew; the module variables
\* and the requests in flight stay.
ShowPageRecords ==
    /\ recordsSection' = NoSection
    /\ recordsDate' = Today
    /\ recordsSession' = "morning"
    /\ recordsSearchValue' = ""
    /\ recordsPerPageValue' = 25
    /\ recordsTbody' = EmptyTbody
    /\ recordsPagination' = NoPagination
    /\ activePage' = "records"
    /\ ev' = Event("showPageRecords", << >>)
    /\ UNCHANGED <<view, dashVars, panelVars, markVars, studentsVars, recordsPage,
                   recordsPerPage, recordsSearch, recordsReqs>>

\* The state renderRecords leaves, with the module variables as declared.
InitRecords ==
    /\ recordsPage = 1
    /\ recordsPerPage = 25
    /\ recordsSearch = ""
    /\ recordsSection = NoSection
    /\ recordsDate = Today
    /\ recordsSession = "morning"
    /\ recordsSearchValue = ""
    /\ recordsPerPageValue = 25
    /\ recordsTbody = EmptyTbody
    /\ recordsPagination = NoPagination
    /\ recordsReqs = << >>

NextRecords ==
    \/ RecordsLoadClick
    \/ \E v \in SectionIds \cup {NoSection} : RecordsSectionChange(v)
    \/ \E v \in DateValues : RecordsDateChange(v)
    \/ \E v \in SessionValues : RecordsSessionChange(v)
    \/ \E v \in ListSearchTexts : RecordsSearchInput(v)
    \/ \E v \in PerPageChoices : RecordsPerPageChange(v)
    \/ \E which \in {"prev", "next"} : RecordsPageClick(which)
    \/ \E i \in 1..Len(recordsReqs) :
          \E list \in RowLists : \E total \in Totals : RecordsOk(i, list, total)
    \/ \E i \in 1..Len(recordsReqs) : RecordsFail(i)
    \/ activePage = "records" /\ ShowPageRecords

\* ------------------------------------------------------------ Chat formatter

\* A string is the sequence of its pieces.  A piece is one character, or a
\* run of characters that an escape produces or that the formatter inserts
\* ("&lt;", "<strong>", "<tr>"): no later step of the code looks into such
\* a run, and its first and last characters are neither a pipe, an
\* asterisk, whitespace nor a line break.

\* \s of a regular expression, and what trim() removes.
Whitespace == {" ", "\t", "\r", "\n"}

\* Characters that `.` of a regular expression does not match.
LineTerminators == {"\n", "\r"}

\* The number of lines of a chat reply.
MaxLines == 3

\* The lines a chat reply may hold.
ChatLines ==
    { << >>,
      <<"a">>,
      <<"*", "*", "b", "*", "*">>,
      <<"<", "b", ">", "&">>,
      <<" ", "|", "a", "|">>,
      <<"|", "|">>,
      <<"|", "a", "|">>,
      <<"|", " ", "a", " ", "|", "<", "|">>,
      <<"|", "-", "|">>,
      <<"|", ":", "-", " ", "|", "-", "|">>,
      <<"|", " ", "|">>,
      <<"|", "*", "*", "b", "*", "*", "|", "|">> }

\* The argument of formatAiMessage: null (or undefined), or a string.
NullRaw == [null |-> TRUE, text |-> << >>]

StringRaw(text) == [null |-> FALSE, text |-> text]

\* lines.join(sep)
RECURSIVE Join(_, _)
Join(lines, sep) ==
    IF lines = << >> THEN << >>
    ELSE IF Len(lines) = 1 THEN lines[1]
    ELSE lines[1] \o <<sep>> \o Join(Tail(lines), sep)

\* The replies of at most n lines.
RECURSIVE LineSeqs(_)
LineSeqs(n) ==
    IF n = 0 THEN {<< >>}
    ELSE LET shorter == LineSeqs(n - 1)
         IN  shorter \cup {Append(ls, l) : ls \in {x \in shorter : Len(x) = n - 1},
                                           l \in ChatLines}

\* escapeHtml(s): the serialisation of a text node.
EscapeChar(c) ==
    IF c = "&" THEN "&amp;"
    ELSE IF c = "<" THEN "&lt;"
    ELSE IF c = ">" THEN "&gt;"
    ELSE c

escapeHtml(s) ==
    IF s.null THEN << >>
    ELSE [i \in 1..Len(s.text) |-> EscapeChar(s.text[i])]

\* raw || ''
OrEmpty(raw) == IF raw.null THEN StringRaw(<< >>) ELSE raw

\* The length of the longest run of pieces other than "*" that starts at j.
RECURSIVE NonStarRun(_, _)
NonStarRun(s, j) ==
    IF j > Len(s) \/ s[j] = "*" THEN 0 ELSE 1 + NonStarRun(s, j + 1)

\* /\*\*([^*]+)\*\*/ matches at i: the length of the captured group, or 0.
StrongAt(s, i) ==
    LET k == NonStarRun(s, i + 2)
    IN  IF /\ i + 1 <= Len(s)
           /\ s[i] = "*" /\ s[i + 1] = "*"
           /\ k >= 1
           /\ i + 3 + k <= Len(s)
           /\ s[i + 2 + k] = "*" /\ s[i + 3 + k] = "*"
        THEN k ELSE 0

\* s.replace(/\*\*([^*]+)\*\*/g, '<strong>$1</strong>'), from position i on.
RECURSIVE ReplaceStrong(_, _)
ReplaceStrong(s, i) ==
    IF i > Len(s) THEN << >>
    ELSE LET k == StrongAt(s, i)
         IN  IF k > 0
             THEN <<"<strong>">> \o SubSeq(s, i + 2, i + 1 + k) \o <<"</strong>">>
                  \o ReplaceStrong(s, i + 4 + k)
             ELSE <<s[i]>> \o ReplaceStrong(s, i + 1)

\* The position of the first `sep` of s at or after i, or 0.
RECURSIVE IndexOf(_, _, _)
IndexOf(s, sep, i) ==
    IF i > Len(s) THEN 0
    ELSE IF s[i] = sep THEN i
    ELSE IndexOf(s, sep, i + 1)

\* s.split(sep)
RECURSIVE Split(_, _)
Split(s, sep) ==
    LET k == IndexOf(s, sep, 1)
    IN  IF k = 0 THEN <<s>>
        ELSE <<SubSeq(s, 1, k - 1)>> \o Split(SubSeq(s, k + 1, Len(s)), sep)

\* Mutant of IsTableRow: nothing is required between the two pipes
\* (`.*` in place of `.+`).
IsTableRow_EmptyInterior(line) ==
    /\ Len(line) >= 2
    /\ line[1] = "|"
    /\ line[Len(line)] = "|"
    /\ \A k \in 2..(Len(line) - 1) : line[k] \notin LineTerminators

\* line.match(/^\|.+\|$/)
IsTableRow(line) ==
    /\ Len(line) >= 3
    /\ line[1] = "|"
    /\ line[Len(line)] = "|"
    /\ \A k \in 2..(Len(line) - 1) : line[k] \notin LineTerminators

\* row.replace(/\s/g, '')
RemoveWhitespace(row) == SelectSeq(row, LAMBDA c : c \notin Whitespace)

\* Mutant of IsSeparator: nothing is required between the two pipes
\* (`*` in place of `+`).
IsSeparator_EmptyInterior(t) ==
    /\ Len(t) >= 2
    /\ t[1] = "|"
    /\ t[Len(t)] = "|"
    /\ \A k \in 2..(Len(t) - 1) : t[k] \in {"-", ":", "|"}

\* t.match(/^\|[\-\:|]+\|$/)
IsSeparator(t) ==
    /\ Len(t) >= 3
    /\ t[1] = "|"
    /\ t[Len(t)] = "|"
    /\ \A k \in 2..(Len(t) - 1) : t[k] \in {"-", ":", "|"}

\* skipSep of a block.
SkipSep(tableRows) ==
    /\ Len(tableRows) >= 2
    /\ IsSeparator(RemoveWhitespace(tableRows[2]))

\* c.trim()
RECURSIVE TrimStart(_)
TrimStart(c) ==
    IF c # << >> /\ c[1] \in Whitespace THEN TrimStart(Tail(c)) ELSE c

RECURSIVE TrimEnd(_)
TrimEnd(c) ==
    IF c # << >> /\ c[Len(c)] \in Whitespace
    THEN TrimEnd(SubSeq(c, 1, Len(c) - 1)) ELSE c

Trim(c) == TrimEnd(TrimStart(c))

\* row.split('|').slice(1, -1).map(trim)
Cells(row) ==
    LET parts == Split(row, "|")
        inner == SubSeq(parts, 2, Len(parts) - 1)
    IN  [k \in 1..Len(inner) |-> Trim(inner[k])]

\* '<tag>' + cell + '</tag>' for every cell of a row.
RECURSIVE CellsHtml(_, _)
CellsHtml(cells, tag) ==
    IF cells = << >> THEN << >>
    ELSE <<IF tag = "th" THEN "<th>" ELSE "<td>">> \o cells[1]
         \o <<IF tag = "th" THEN "</th>" ELSE "</td>">>
         \o CellsHtml(Tail(cells), tag)

\* The rows r..end of a block, as the loop over tableRows writes them.
RECURSIVE RowsHtml(_, _, _)
RowsHtml(tableRows, r, skipSep) ==
    IF r > Len(tableRows) THEN << >>
    ELSE IF skipSep /\ r = 2 THEN RowsHtml(tableRows, r + 1, skipSep)
    ELSE LET tag == IF r = 1 /\ skipSep THEN "th" ELSE "td"
         IN  <<"<tr>">> \o CellsHtml(Cells(tableRows[r]), tag) \o <<"</tr>">>
             \o RowsHtml(tableRows, r + 1, skipSep)

TableOpen == "<table class=\"chat-table\">"

\* tableHtml of a block.
TableHtml(tableRows) ==
    <<TableOpen>> \o RowsHtml(tableRows, 1, SkipSep(tableRows)) \o <<"</table>">>

\* The number of consecutive table rows of `lines` from i on.
RECURSIVE RowRun(_, _)
RowRun(lines, i) ==
    IF i > Len(lines) \/ ~IsTableRow(lines[i]) THEN 0
    ELSE 1 + RowRun(lines, i + 1)

\* Mutant of ScanLines: the inner loop leaves the index one line too far,
\* so the line that ends a block is passed over.
RECURSIVE ScanLines_SkipsAfterBlock(_, _)
ScanLines_SkipsAfterBlock(lines, i) ==
    IF i > Len(lines) THEN << >>
    ELSE IF IsTableRow(lines[i])
         THEN LET n == RowRun(lines, i)
              IN  <<TableHtml(SubSeq(lines, i, i + n - 1))>>
                  \o ScanLines_SkipsAfterBlock(lines, i + n + 1)
         ELSE <<lines[i]>> \o ScanLines_SkipsAfterBlock(lines, i + 1)

\* The while loop over `lines` from index i on: what it pushes onto `out`.
RECURSIVE ScanLines(_, _)
ScanLines(lines, i) ==
    IF i > Len(lines) THEN << >>
    ELSE IF IsTableRow(lines[i])
         THEN LET n == RowRun(lines, i)
              IN  <<TableHtml(SubSeq(lines, i, i + n - 1))>>
                  \o ScanLines(lines, i + n)
         ELSE <<lines[i]>> \o ScanLines(lines, i + 1)

\* s.replace(/\n/g, '<br>')
ReplaceNewlines(s) == [k \in 1..Len(s) |-> IF s[k] = "\n" THEN "<br>" ELSE s[k]]

\* The pieces of s with the inserted emphasis markup escaped as text is.
RECURSIVE EscapeInserted(_)
EscapeInserted(s) ==
    IF s = << >> THEN << >>
    ELSE (IF s[1] = "<strong>" THEN <<"&lt;", "strong", "&gt;">>
          ELSE IF s[1] = "</strong>" THEN <<"&lt;", "/strong", "&gt;">>
          ELSE <<EscapeChar(s[1])>>)
         \o EscapeInserted(Tail(s))

\* Mutant of FormatOut: the emphasis is substituted in the raw text and
\* the result is escaped afterwards.
FormatOut_EscapesAfterStrong(raw) ==
    ScanLines(Split(EscapeInserted(ReplaceStrong(OrEmpty(raw).text, 1)), "\n"), 1)

\* The array `out` of formatAiMessage(raw).
FormatOut(raw) ==
    ScanLines(Split(ReplaceStrong(escapeHtml(OrEmpty(raw)), 1), "\n"), 1)

\* formatAiMessage(raw)
formatAiMessage(raw) == ReplaceNewlines(Join(FormatOut(raw), "\n"))

\* One call formatAiMessage(fmtRaw).
FormatAiMessage ==
    /\ view = "format"
    /\ ~fmtReturned
    /\ fmtOut' = FormatOut(fmtRaw)
    /\ fmtHtml' = formatAiMessage(fmtRaw)
    /\ fmtReturned' = TRUE
    /\ ev' = Event("formatAiMessage", << >>)
    /\ UNCHANGED <<view, dashVars, activePage, fmtRaw, markVars, studentsVars, recordsVars, chatVars,
                   editVars>>

\* No call of the formatter is under way.
FormatIdle ==
    /\ fmtRaw = NullRaw
    /\ fmtOut = << >>
    /\ fmtHtml = << >>
    /\ fmtReturned = FALSE

\* formatAiMessage is about to be called with any of the replies.
InitFormat ==
    /\ fmtRaw \in {NullRaw} \cup {StringRaw(Join(ls, "\n")) : ls \in LineSeqs(MaxLines)}
    /\ fmtOut = << >>
    /\ fmtHtml = << >>
    /\ fmtReturned = FALSE

NextFormat == FormatAiMessage

\* ---------------------------------------------------------------- Chat panel

\* The number of questions sent in a session.
MaxQuestions == 2

\* What is typed into #chatInput.
ChatInputs ==
    { << >>, <<" ">>, <<"h", "i">>, <<" ", "a", "\n", "<", "\n">> }

\* data.response of a reply: missing, or a text.
ChatResponses ==
    { NullRaw,
      StringRaw(<< >>),
      StringRaw(<<"o", "k">>),
      StringRaw(Join(<< <<"|", "a", "|">>, <<"|", "-", "|">>, <<"|", "<", "|">> >>, "\n")) }

\* The body of a 200 reply: null, or an object with data.response.
NullData == [null |-> TRUE, response |-> NullRaw]

ChatData == {NullData} \cup {[null |-> FALSE, response |-> r] : r \in ChatResponses}

\* The errors api() rejects with: new Error(d.error || 'Request failed'),
\* or the error of fetch or of r.json().  None carries a `response`.
ChatErrors == { [message |-> <<"Request failed">>],
                [message |-> <<"AI is not configured.">>] }

\* The TypeError of reading data.response of null.  Its message is the
\* engine's: V8's (current and before 9.3), SpiderMonkey's, JavaScriptCore's.
TypeErrorsOfNull ==
    { [message |-> <<"Cannot read properties of null (reading 'response')">>],
      [message |-> <<"Cannot read property 'response' of null">>],
      [message |-> <<"data is null">>],
      [message |-> <<"null is not an object (evaluating 'data.response')">>] }

\* The body of a message as chatAppendMessage builds it (the time span
\* apart).
UserBody(text) == ReplaceNewlines(escapeHtml(StringRaw(text)))

AiBody(text) ==
    <<"<span class=\"chat-msg-body\">">> \o formatAiMessage(StringRaw(text))
    \o <<"</span>">>

\* chatAppendMessage(role, text)
chatAppendMessage(messages, role, text) ==
    Append(messages,
           [role |-> role,
            body |-> IF role = "ai" THEN AiBody(text) ELSE UserBody(text)])

\* chatShowLoading(show)
chatShowLoading(loading, show) ==
    IF show THEN [created |-> TRUE, display |-> "block"]
    ELSE IF loading.created THEN [loading EXCEPT !.display = "none"]
    ELSE loading

\* data.response || 'No response.'
ResponseText(data) ==
    IF data.response.null \/ data.response.text = << >>
    THEN <<"No response.">>
    ELSE data.response.text

\* (err && err.message) ? err.message : 'AI usage limit reached. ...'
FallbackText(err) ==
    IF err.message # << >> THEN err.message
    ELSE <<"AI usage limit reached. Please try later.">>

\* Typing into #chatInput.
ChatInput(v) ==
    /\ v \in ChatInputs
    /\ v # chatInput
    /\ chatInput' = v
    /\ ev' = Event("chatInput", << >>)
    /\ UNCHANGED <<view, dashVars, activePage, markVars, studentsVars, recordsVars, editVars, fmtVars,
                   chatMessages, chatLoading, chatReqs>>

\* chatSend(): a click on #chatSendBtn, or Enter in #chatInput.
chatSend ==
    /\ LET q == Trim(chatInput)
       IN  IF q = << >>
           THEN UNCHANGED chatVars
           ELSE /\ Len(SelectSeq(chatMessages, LAMBDA m : m.role = "user"))
                      < MaxQuestions
                /\ chatInput' = << >>
                /\ chatMessages' = chatAppendMessage(chatMessages, "user", q)
                /\ chatLoading' = chatShowLoading(chatLoading, TRUE)
                /\ chatReqs' = Append(chatReqs, [question |-> q])
    /\ ev' = Event("chatSend", << >>)
    /\ UNCHANGED <<view, dashVars, activePage, markVars, studentsVars, recordsVars, editVars, fmtVars>>

\* The chat request i resolves with `data`.  Reading data.response of a
\* null body throws after the indicator was hidden, and the catch handler
\* of the chain appends the message of that error, whichever the engine
\* gives it.
ChatOk(i, data) ==
    /\ i \in 1..Len(chatReqs)
    /\ data \in ChatData
    /\ chatReqs' = RemoveAt(chatReqs, i)
    /\ chatLoading' = chatShowLoading(chatLoading, FALSE)
    /\ \E err \in TypeErrorsOfNull :
          chatMessages' =
             chatAppendMessage(chatMessages, "ai",
                 IF data.null THEN FallbackText(err) ELSE ResponseText(data))
    /\ ev' = Event("chatOk", << >>)
    /\ UNCHANGED <<view, dashVars, activePage, markVars, studentsVars, recordsVars, editVars, fmtVars, chatInput>>

\* Mutant of ChatFail: the catch handler hides the indicator and appends
\* nothing.
ChatFail_Silent(i, err) ==
    /\ i \in 1..Len(chatReqs)
    /\ err \in ChatErrors
    /\ chatReqs' = RemoveAt(chatReqs, i)
    /\ chatLoading' = chatShowLoading(chatLoading, FALSE)
    /\ ev' = Event("chatFail", << >>)
    /\ UNCHANGED <<view, dashVars, activePage, markVars, studentsVars, recordsVars, editVars, fmtVars, chatInput,
                   chatMessages>>

\* The chat request i is rejected with `err`.
ChatFail(i, err) ==
    /\ i \in 1..Len(chatReqs)
    /\ err \in ChatErrors
    /\ chatReqs' = RemoveAt(chatReqs, i)
    /\ chatLoading' = chatShowLoading(chatLoading, FALSE)
    /\ chatMessages' = chatAppendMessage(chatMessages, "ai", FallbackText(err))
    /\ ev' = Event("chatFail", << >>)
    /\ UNCHANGED <<view, dashVars, activePage, markVars, studentsVars, recordsVars, editVars, fmtVars, chatInput>>

\* The chat panel as the page loads.
InitChat ==
    /\ chatInput = << >>
    /\ chatMessages = << >>
    /\ chatLoading = [created |-> FALSE, display |-> "none"]
    /\ chatReqs = << >>

NextChat ==
    \/ \E v \in ChatInputs : ChatInput(v)
    \/ chatSend
    \/ \E i \in 1..Len(chatReqs) : \E data \in ChatData : ChatOk(i, data)
    \/ \E i \in 1..Len(chatReqs) : \E err \in ChatErrors : ChatFail(i, err)

\* -------------------------------------------------- Students: the two modals

\* `''` of the hidden #studentId field.
NoStudentId == 0

\* The students the server knows by id.
StudentIds == 1..MaxStudents

\* What the user fills the form with: a section, a roll number and a
\* name, or one of them left out.
FormFills ==
    { [section |-> 1, rollNo |-> <<"E", "5">>, name |-> <<"E", "n">>],
      [section |-> 1, rollNo |-> <<"E", "5">>, name |-> <<" ">>],
      [section |-> NoSection, rollNo |-> <<"E", "5">>, name |-> <<"E", "n">>] }

\* The ids of the rows of #studentsTbody, each with its Edit and Delete
\* buttons.
RowIds ==
    IF studentsTbody.kind = "rows"
    THEN {studentsTbody.list[k] : k \in 1..Len(studentsTbody.list)}
    ELSE {}

\* openStudentModal(id): id is NoStudentId for the Add button.
openStudentModal(id) ==
    /\ activePage = "students"
    /\ id \in {NoStudentId} \cup RowIds
    /\ modalSectionsReqs < MaxInFlight
    /\ modalSectionsReqs' = modalSectionsReqs + 1
    /\ IF id # NoStudentId
       THEN /\ Len(studentGets) < MaxInFlight
            /\ studentGets' = Append(studentGets, [id |-> id])
            /\ modalStudent' = [modalStudent EXCEPT !.title = "Edit Student",
                                                    !.show = TRUE,
                                                    !.openedFor = id]
       ELSE /\ UNCHANGED studentGets
            /\ modalStudent' = [modalStudent EXCEPT !.title = "Add Student",
                                                    !.studentId = NoStudentId,
                                                    !.rollNo = << >>,
                                                    !.name = << >>,
                                                    !.show = TRUE,
                                                    !.openedFor = id]
    /\ ev' = Event("openStudentModal", << >>)
    /\ UNCHANGED <<view, dashVars, activePage, markVars, studentsVars, recordsVars, fmtVars, chatVars, sectionsVars,
                   modalConfirm, studentWrites>>

\* GET /api/sections of loadSectionsForSelect(#studentSection) resolves: the
\* options are written again, which leaves the first one ("") selected.
ModalSectionsOk ==
    /\ modalSectionsReqs > 0
    /\ modalSectionsReqs' = modalSectionsReqs - 1
    /\ modalStudent' = [modalStudent EXCEPT !.options = TRUE,
                                            !.section = NoSection]
    /\ ev' = Event("modalSectionsOk", << >>)
    /\ UNCHANGED <<view, dashVars, activePage, markVars, studentsVars, recordsVars, fmtVars, chatVars, sectionsVars,
                   modalConfirm, studentGets, studentWrites>>

\* The same request is rejected: the promise has no catch handler.
ModalSectionsFail ==
    /\ modalSectionsReqs > 0
    /\ modalSectionsReqs' = modalSectionsReqs - 1
    /\ ev' = Event("modalSectionsFail", << >>)
    /\ UNCHANGED <<view, dashVars, activePage, markVars, studentsVars, recordsVars, fmtVars, chatVars, sectionsVars,
                   modalStudent, modalConfirm, studentGets, studentWrites>>

\* GET /api/students/<id> of the Edit button resolves with the student: the
\* form is filled.  A <select> takes a value only if it has that option:
\* #studentSection has the sections of the server once its options have
\* arrived, and reads '' otherwise.
StudentGetOk(i) ==
    /\ i \in 1..Len(studentGets)
    /\ LET st == studentGets[i].id
       IN  modalStudent' =
               [modalStudent EXCEPT
                   !.studentId = st,
                   !.section = IF /\ modalStudent.options
                                  /\ SectionOf(st) \in SectionIds
                               THEN SectionOf(st)
                               ELSE NoSection,
                   !.rollNo = RollNoOf(st),
                   !.name = NameOf(st)]
    /\ studentGets' = RemoveAt(studentGets, i)
    /\ ev' = Event("studentGetOk", << >>)
    /\ UNCHANGED <<view, dashVars, activePage, markVars, studentsVars, recordsVars, fmtVars, chatVars, sectionsVars,
                   modalConfirm, modalSectionsReqs, studentWrites>>

\* The same request is rejected.
StudentGetFail(i) ==
    /\ i \in 1..Len(studentGets)
    /\ modalStudent' = [modalStudent EXCEPT !.title = "Add Student",
                                            !.studentId = NoStudentId]
    /\ studentGets' = RemoveAt(studentGets, i)
    /\ ev' = Event("studentGetFail", << >>)
    /\ UNCHANGED <<view, dashVars, activePage, markVars, studentsVars, recordsVars, fmtVars, chatVars, sectionsVars,
                   modalConfirm, modalSectionsReqs, studentWrites>>

\* The user fills in the three fields of the shown form; a section can be
\* chosen only once the options are there.
StudentFormFill(v) ==
    /\ modalStudent.show
    /\ v \in FormFills
    /\ v.section # NoSection => modalStudent.options /\ v.section \in SectionIds
    /\ <<modalStudent.section, modalStudent.rollNo, modalStudent.name>>
          # <<v.section, v.rollNo, v.name>>
    /\ modalStudent' = [modalStudent EXCEPT !.section = v.section,
                                            !.rollNo = v.rollNo,
                                            !.name = v.name]
    /\ ev' = Event("studentFormFill", << >>)
    /\ UNCHANGED <<view, dashVars, activePage, markVars, studentsVars, recordsVars, fmtVars, chatVars, sectionsVars,
                   modalConfirm, modalSectionsReqs, studentGets, studentWrites>>

\* The submit handler of #formStudent.
StudentFormSubmit ==
    /\ modalStudent.show
    /\ LET id == modalStudent.studentId
           sectionId == modalStudent.section
           rollNo == Trim(modalStudent.rollNo)
           name == Trim(modalStudent.name)
       IN  IF rollNo = << >> \/ name = << >> \/ sectionId = NoSection
           THEN UNCHANGED studentWrites
           ELSE /\ Len(studentWrites) < MaxInFlight
                /\ studentWrites' = Append(studentWrites,
                       [method |-> IF id # NoStudentId THEN "PATCH" ELSE "POST",
                        id |-> id,
                        body |-> [section_id |-> sectionId, roll_no |-> rollNo,
                                  name |-> name]])
    /\ ev' = Event("studentFormSubmit", << >>)
    /\ UNCHANGED <<view, dashVars, activePage, markVars, studentsVars, recordsVars, fmtVars, chatVars, sectionsVars,
                   modalStudent, modalConfirm, modalSectionsReqs, studentGets>>

\* .btn-cancel-student, or a click on the backdrop of #modalStudent.
StudentModalClose ==
    /\ modalStudent.show
    /\ modalStudent' = [modalStudent EXCEPT !.show = FALSE]
    /\ ev' = Event("studentModalClose", << >>)
    /\ UNCHANGED <<view, dashVars, activePage, markVars, studentsVars, recordsVars, fmtVars, chatVars, sectionsVars,
                   modalConfirm, modalSectionsReqs, studentGets, studentWrites>>

\* The POST or PATCH i of the form resolves.
StudentSaveOk(i) ==
    /\ i \in 1..Len(studentWrites)
    /\ studentWrites[i].method \in {"POST", "PATCH"}
    /\ studentWrites' = RemoveAt(studentWrites, i)
    /\ modalStudent' = [modalStudent EXCEPT !.show = FALSE]
    /\ loadStudentsList(studentsPage, studentsPerPage, studentsSortBy,
                        studentsSectionId, studentsSearch)
    /\ ev' = Event("studentSaveOk", <<ToastSuccess("Student saved.")>>)
    /\ UNCHANGED <<view, dashVars, activePage, markVars, recordsVars, fmtVars, chatVars, sectionsVars, studentsQuery,
                   studentsControls,
                   studentsTotal, studentsTbody, studentsPagination,
                   modalConfirm, modalSectionsReqs, studentGets>>

\* The POST or PATCH i of the form is rejected.
StudentSaveFail(i) ==
    /\ i \in 1..Len(studentWrites)
    /\ studentWrites[i].method \in {"POST", "PATCH"}
    /\ studentWrites' = RemoveAt(studentWrites, i)
    /\ ev' = Event("studentSaveFail", <<ToastErr>>)
    /\ UNCHANGED <<view, dashVars, activePage, markVars, studentsVars, recordsVars, fmtVars, chatVars, sectionsVars,
                   modalStudent, modalConfirm, modalSectionsReqs, studentGets>>

\* The requests in flight of a session with the Delete confirmation or with
\* the Add/Edit modal of the sections page.
EditInFlight ==
    Len(studentsReqs) + Len(studentWrites) + sectionsReqs + Len(sectionWrites)

\* confirmDeleteStudent(id): a click on the Delete button of a row of the
\* students page.
confirmDeleteStudent(id) ==
    /\ activePage = "students"
    /\ id \in RowIds
    /\ modalConfirm' =
          [show |-> TRUE, title |-> "Delete Student",
           body |-> <<"Delete this student? Attendance records will be removed.">>,
           deletes |-> "student", id |-> id]
    /\ ev' = Event("confirmDeleteStudent", << >>)
    /\ UNCHANGED <<view, dashVars, activePage, markVars, studentsVars, recordsVars, fmtVars, chatVars, sectionsVars,
                   modalStudent, modalSectionsReqs, studentGets, studentWrites>>

\* #btnConfirmOk click: its onclick is the one confirmDeleteStudent or
\* confirmDeleteSection gave it last.
ConfirmOkClick ==
    /\ modalConfirm.show
    /\ IF modalConfirm.deletes = "student"
       THEN /\ EditInFlight < MaxInFlight
            /\ studentWrites' = Append(studentWrites,
                   [method |-> "DELETE", id |-> modalConfirm.id,
                    body |-> [section_id |-> NoSection, roll_no |-> << >>,
                              name |-> << >>]])
            /\ UNCHANGED sectionWrites
       ELSE IF modalConfirm.deletes = "section"
       THEN /\ EditInFlight < MaxInFlight
            /\ sectionWrites' = Append(sectionWrites,
                   [method |-> "DELETE", id |-> modalConfirm.id, name |-> << >>])
            /\ UNCHANGED studentWrites
       ELSE UNCHANGED <<studentWrites, sectionWrites>>
    /\ ev' = Event("confirmOk", << >>)
    /\ UNCHANGED <<view, dashVars, activePage, markVars, studentsVars, recordsVars, fmtVars, chatVars,
                   sectionsCache, sectionCards, sectionsReqs, modalSection,
                   modalStudent, modalConfirm, modalSectionsReqs, studentGets>>

\* #btnConfirmCancel, or a click on the backdrop of #modalConfirm.
ConfirmCancel ==
    /\ modalConfirm.show
    /\ modalConfirm' = [modalConfirm EXCEPT !.show = FALSE]
    /\ ev' = Event("confirmCancel", << >>)
    /\ UNCHANGED <<view, dashVars, activePage, markVars, studentsVars, recordsVars, fmtVars, chatVars, sectionsVars,
                   modalStudent, modalSectionsReqs, studentGets, studentWrites>>

\* The DELETE i resolves.
StudentDeleteOk(i) ==
    /\ i \in 1..Len(studentWrites)
    /\ studentWrites[i].method = "DELETE"
    /\ studentWrites' = RemoveAt(studentWrites, i)
    /\ modalConfirm' = [modalConfirm EXCEPT !.show = FALSE]
    /\ loadStudentsList(studentsPage, studentsPerPage, studentsSortBy,
                        studentsSectionId, studentsSearch)
    /\ ev' = Event("studentDeleteOk", <<ToastSuccess("Student deleted.")>>)
    /\ UNCHANGED <<view, dashVars, activePage, markVars, recordsVars, fmtVars, chatVars, sectionsVars, studentsQuery,
                   studentsControls,
                   studentsTotal, studentsTbody, studentsPagination,
                   modalStudent, modalSectionsReqs, studentGets>>

\* The DELETE i is rejected.
StudentDeleteFail(i) ==
    /\ i \in 1..Len(studentWrites)
    /\ studentWrites[i].method = "DELETE"
    /\ studentWrites' = RemoveAt(studentWrites, i)
    /\ ev' = Event("studentDeleteFail", <<ToastErr>>)
    /\ UNCHANGED <<view, dashVars, activePage, markVars, studentsVars, recordsVars, fmtVars, chatVars, sectionsVars,
                   modalStudent, modalConfirm, modalSectionsReqs, studentGets>>

\* ------------------------------------------------------------------ Sections

\* The bodies of a successful GET /api/sections?stats=1 (ids of the
\* sections); << >> also stands for a missing list.
SectionLists == {<< >>, <<1, 2>>, <<2>>}

\* The name the server holds for section i.
SectionNameOf(i) == <<"S", Digits[i]>>

\* What is typed into #sectionName.
SectionNameInputs == {<< >>, <<" ">>, <<" ", "S", "9">>}

\* #sectionCards: "none" before renderSections has run (the page is empty),
\* "loading" as renderSections writes it, "empty" (the 'No sections' state),
\* "cards" or "failed" as the handlers of its request leave it.
Cards(kind, list) == [kind |-> kind, list |-> list]

\* The ids of the cards of #sectionCards, each with its Edit and Delete
\* buttons.
CardIds ==
    IF sectionCards.kind = "cards"
    THEN {sectionCards.list[k] : k \in 1..Len(sectionCards.list)}
    ELSE {}

\* sectionsCache.find(x => x.id === id), as its name ('' when not found).
CachedNameOf(id) ==
    IF \E k \in 1..Len(sectionsCache) : sectionsCache[k] = id
    THEN SectionNameOf(id)
    ELSE << >>

\* The sessions in which the sections page is rendered: with the Delete
\* confirmation, with the Add/Edit modal of the page.
SectionsViews == {"confirm", "sectionForm"}

\* renderSections(): the page is written anew and the sections are
\* requested.  inFlight is what the caller adds to the number of requests
\* in flight (the request it has just seen answered).
renderSections(inFlight) ==
    /\ inFlight + EditInFlight < MaxInFlight
    /\ sectionsReqs' = sectionsReqs + 1
    /\ sectionCards' = Cards("loading", << >>)

\* A click on the nav item of the page: showPage('sections').
ShowPageSections ==
    /\ activePage' = "sections"
    /\ renderSections(0)
    /\ ev' = Event("showPageSections", << >>)
    /\ UNCHANGED <<view, dashVars, markVars, studentsVars, recordsVars, fmtVars, chatVars,
                   sectionsCache, modalSection, sectionWrites,
                   modalStudent, modalConfirm, modalSectionsReqs, studentGets,
                   studentWrites>>

\* A GET /api/sections?stats=1 resolves with `list`.
SectionsOk(list) ==
    /\ sectionsReqs > 0
    /\ list \in SectionLists
    /\ sectionsReqs' = sectionsReqs - 1
    /\ sectionsCache' = list
    /\ sectionCards' = IF list = << >> THEN Cards("empty", << >>)
                                      ELSE Cards("cards", list)
    /\ ev' = Event("sectionsOk", << >>)
    /\ UNCHANGED <<view, dashVars, activePage, markVars, studentsVars, recordsVars, fmtVars, chatVars,
                   modalSection, sectionWrites,
                   modalStudent, modalConfirm, modalSectionsReqs, studentGets,
                   studentWrites>>

\* A GET /api/sections?stats=1 is rejected.
SectionsFail ==
    /\ sectionsReqs > 0
    /\ sectionsReqs' = sectionsReqs - 1
    /\ sectionCards' = Cards("failed", << >>)
    /\ ev' = Event("sectionsFail", << >>)
    /\ UNCHANGED <<view, dashVars, activePage, markVars, studentsVars, recordsVars, fmtVars, chatVars,
                   sectionsCache, modalSection, sectionWrites,
                   modalStudent, modalConfirm, modalSectionsReqs, studentGets,
                   studentWrites>>

\* openSectionModal(id): id is NoSection for #btnAddSection, and the id of
\* the card for its Edit button.
openSectionModal(id) ==
    /\ activePage = "sections"
    /\ id \in {NoSection} \cup CardIds
    /\ modalSection' =
          IF id # NoSection
          THEN [show |-> TRUE, title |-> "Edit Section",
                name |-> CachedNameOf(id), editId |-> id]
          ELSE [show |-> TRUE, title |-> "Add Section", name |-> << >>,
                editId |-> NoSection]
    /\ ev' = Event("openSectionModal", << >>)
    /\ UNCHANGED <<view, dashVars, activePage, markVars, studentsVars, recordsVars, fmtVars, chatVars,
                   sectionsCache, sectionCards, sectionsReqs, sectionWrites,
                   modalStudent, modalConfirm, modalSectionsReqs, studentGets,
                   studentWrites>>

\* Typing into #sectionName.
SectionNameInput(v) ==
    /\ modalSection.show
    /\ v \in SectionNameInputs
    /\ v # modalSection.name
    /\ modalSection' = [modalSection EXCEPT !.name = v]
    /\ ev' = Event("sectionNameInput", << >>)
    /\ UNCHANGED <<view, dashVars, activePage, markVars, studentsVars, recordsVars, fmtVars, chatVars,
                   sectionsCache, sectionCards, sectionsReqs, sectionWrites,
                   modalStudent, modalConfirm, modalSectionsReqs, studentGets,
                   studentWrites>>

\* The submit handler of #formSection: PATCH with an edit id, POST without.
SectionFormSubmit ==
    /\ modalSection.show
    /\ LET name == Trim(modalSection.name)
           id == modalSection.editId
       IN  IF name = << >>
           THEN UNCHANGED sectionWrites
           ELSE /\ EditInFlight < MaxInFlight
                /\ sectionWrites' = Append(sectionWrites,
                       [method |-> IF id # NoSection THEN "PATCH" ELSE "POST",
                        id |-> id, name |-> name])
    /\ ev' = Event("sectionFormSubmit", << >>)
    /\ UNCHANGED <<view, dashVars, activePage, markVars, studentsVars, recordsVars, fmtVars, chatVars,
                   sectionsCache, sectionCards, sectionsReqs, modalSection,
                   modalStudent, modalConfirm, modalSectionsReqs, studentGets,
                   studentWrites>>

\* closeSectionModal(): .btn-cancel-section, or a click on the backdrop of
\* #modalSection.
closeSectionModal ==
    /\ modalSection.show
    /\ modalSection' = [modalSection EXCEPT !.show = FALSE]
    /\ ev' = Event("closeSectionModal", << >>)
    /\ UNCHANGED <<view, dashVars, activePage, markVars, studentsVars, recordsVars, fmtVars, chatVars,
                   sectionsCache, sectionCards, sectionsReqs, sectionWrites,
                   modalStudent, modalConfirm, modalSectionsReqs, studentGets,
                   studentWrites>>

\* The POST or PATCH i resolves: the modal is closed and the page is
\* rendered again.
SectionSaveOk(i) ==
    /\ i \in 1..Len(sectionWrites)
    /\ sectionWrites[i].method \in {"POST", "PATCH"}
    /\ sectionWrites' = RemoveAt(sectionWrites, i)
    /\ modalSection' = [modalSection EXCEPT !.show = FALSE]
    /\ renderSections(-1)
    /\ ev' = Event("sectionSaveOk", <<ToastSuccess("Section saved.")>>)
    /\ UNCHANGED <<view, dashVars, activePage, markVars, studentsVars, recordsVars, fmtVars, chatVars,
                   sectionsCache,
                   modalStudent, modalConfirm, modalSectionsReqs, studentGets,
                   studentWrites>>

\* The POST or PATCH i is rejected.
SectionSaveFail(i) ==
    /\ i \in 1..Len(sectionWrites)
    /\ sectionWrites[i].method \in {"POST", "PATCH"}
    /\ sectionWrites' = RemoveAt(sectionWrites, i)
    /\ ev' = Event("sectionSaveFail", <<ToastErr>>)
    /\ UNCHANGED <<view, dashVars, activePage, markVars, studentsVars, recordsVars, fmtVars, chatVars,
                   sectionsCache, sectionCards, sectionsReqs, modalSection,
                   modalStudent, modalConfirm, modalSectionsReqs, studentGets,
                   studentWrites>>

\* confirmDeleteSection(id): a click on the Delete button of a card of the
\* sections page.
confirmDeleteSection(id) ==
    /\ activePage = "sections"
    /\ id \in CardIds
    /\ modalConfirm' =
          [show |-> TRUE, title |-> "Delete Section",
           body |-> <<"Delete section \"">> \o CachedNameOf(id) \o
                    <<"\"? All students and attendance in this section will be removed.">>,
           deletes |-> "section", id |-> id]
    /\ ev' = Event("confirmDeleteSection", << >>)
    /\ UNCHANGED <<view, dashVars, activePage, markVars, studentsVars, recordsVars, fmtVars, chatVars,
                   sectionsVars,
                   modalStudent, modalSectionsReqs, studentGets, studentWrites>>

\* The DELETE i of a section resolves: the confirmation is hidden and the
\* page is rendered again.
SectionDeleteOk(i) ==
    /\ i \in 1..Len(sectionWrites)
    /\ sectionWrites[i].method = "DELETE"
    /\ sectionWrites' = RemoveAt(sectionWrites, i)
    /\ modalConfirm' = [modalConfirm EXCEPT !.show = FALSE]
    /\ renderSections(-1)
    /\ ev' = Event("sectionDeleteOk", <<ToastSuccess("Section deleted.")>>)
    /\ UNCHANGED <<view, dashVars, activePage, markVars, studentsVars, recordsVars, fmtVars, chatVars,
                   sectionsCache, modalSection,
                   modalStudent, modalSectionsReqs, studentGets, studentWrites>>

\* The DELETE i of a section is rejected.
SectionDeleteFail(i) ==
    /\ i \in 1..Len(sectionWrites)
    /\ sectionWrites[i].method = "DELETE"
    /\ sectionWrites' = RemoveAt(sectionWrites, i)
    /\ ev' = Event("sectionDeleteFail", <<ToastErr>>)
    /\ UNCHANGED <<view, dashVars, activePage, markVars, studentsVars, recordsVars, fmtVars, chatVars,
                   sectionsCache, sectionCards, sectionsReqs, modalSection,
                   modalStudent, modalConfirm, modalSectionsReqs, studentGets,
                   studentWrites>>

\* The sections page before renderSections has run (rendered: when it has
\* just run), its modal hidden.
InitSections(rendered) ==
    /\ sectionsCache = << >>
    /\ sectionCards = Cards(IF rendered THEN "loading" ELSE "none", << >>)
    /\ sectionsReqs = IF rendered THEN 1 ELSE 0
    /\ modalSection = [show |-> FALSE, title |-> "", name |-> << >>,
                       editId |-> NoSection]
    /\ sectionWrites = << >>

NextSectionForm ==
    \/ activePage = "sections" /\ ShowPageSections
    \/ \E list \in SectionLists : SectionsOk(list)
    \/ SectionsFail
    \/ \E id \in {NoSection} \cup CardIds : openSectionModal(id)
    \/ \E v \in SectionNameInputs : SectionNameInput(v)
    \/ SectionFormSubmit
    \/ closeSectionModal
    \/ \E i \in 1..Len(sectionWrites) : SectionSaveOk(i)
    \/ \E i \in 1..Len(sectionWrites) : SectionSaveFail(i)

\* The two modals as the page loads: hidden, the form empty.
InitEdit ==
    /\ modalStudent = [show |-> FALSE, title |-> "", options |-> FALSE,
                       studentId |-> NoStudentId, section |-> NoSection,
                       rollNo |-> << >>, name |-> << >>,
                       openedFor |-> NoStudentId]
    /\ modalConfirm = [show |-> FALSE, title |-> "", body |-> << >>,
                       deletes |-> "none", id |-> NoStudentId]
    /\ modalSectionsReqs = 0
    /\ studentGets = << >>
    /\ studentWrites = << >>

\* A response to a loadStudentsList chain, in a session with a modal (the
\* list has one page).
StudentsResponse ==
    \/ \E i \in 1..Len(studentsReqs) :
          \E list \in RowLists :
             StudentsOk(i, list, IF list = << >> THEN 0 ELSE 11)
    \/ \E i \in 1..Len(studentsReqs) : StudentsSectionsOk(i)
    \/ \E i \in 1..Len(studentsReqs) : StudentsFail(i)

NextStudentForm ==
    \/ \E id \in {NoStudentId} \cup StudentIds : openStudentModal(id)
    \/ ModalSectionsOk
    \/ ModalSectionsFail
    \/ \E i \in 1..Len(studentGets) : StudentGetOk(i)
    \/ \E i \in 1..Len(studentGets) : StudentGetFail(i)
    \/ \E v \in FormFills : StudentFormFill(v)
    \/ StudentFormSubmit
    \/ StudentModalClose
    \/ \E i \in 1..Len(studentWrites) : StudentSaveOk(i)
    \/ \E i \in 1..Len(studentWrites) : StudentSaveFail(i)
    \/ StudentsResponse
    \/ activePage = "students" /\ ShowPageStudents

NextConfirm ==
    \/ \E id \in StudentIds : confirmDeleteStudent(id)
    \/ ConfirmOkClick
    \/ ConfirmCancel
    \/ \E i \in 1..Len(studentWrites) : StudentDeleteOk(i)
    \/ \E i \in 1..Len(studentWrites) : StudentDeleteFail(i)
    \/ StudentsResponse
    \/ ShowPageStudents
    \/ ShowPageSections
    \/ \E list \in SectionLists : SectionsOk(list)
    \/ SectionsFail
    \/ \E id \in CardIds : confirmDeleteSection(id)
    \/ \E i \in 1..Len(sectionWrites) : SectionDeleteOk(i)
    \/ \E i \in 1..Len(sectionWrites) : SectionDeleteFail(i)

\* ------------------------------------------------- Dashboard, settings, logout

\* The bodies of a successful GET /api/dashboard/stats: a body with the
\* four fields, and one of an empty school that lacks three of them.
DashboardResponses ==
    { [total_sections |-> 2, total_students |-> 3,
       attendance_marked_today |-> 1, absent_today |-> 0],
      [total_sections |-> 0] }

\* A click on the nav item of the page: showPage('dashboard') runs
\* renderDashboard, which writes the page and requests the stats.
ShowPageDashboard ==
    /\ dashboardReqs < MaxInFlight
    /\ activePage' = "dashboard"
    /\ dashboardCards' = [kind |-> "loading", values |-> << >>]
    /\ dashboardReqs' = dashboardReqs + 1
    /\ ev' = Event("showPageDashboard", << >>)
    /\ UNCHANGED <<view, settingsRendered, markVars, studentsVars, recordsVars,
                   panelVars>>

\* A GET /api/dashboard/stats resolves with `data`: the four cards show
\* (field || 0).
DashboardOk(data) ==
    /\ dashboardReqs > 0
    /\ data \in DashboardResponses
    /\ dashboardReqs' = dashboardReqs - 1
    /\ LET OrZero(f) == IF f \in DOMAIN data /\ data[f] # 0
                         THEN data[f]
                         ELSE 0
       IN  dashboardCards' =
               [kind |-> "stats",
                values |-> <<OrZero("total_sections"),
                             OrZero("total_students"),
                             OrZero("attendance_marked_today"),
                             OrZero("absent_today")>>]
    /\ ev' = Event("dashboardOk", << >>)
    /\ UNCHANGED <<view, activePage, settingsRendered, markVars, studentsVars,
                   recordsVars, panelVars>>

\* A GET /api/dashboard/stats is rejected, or its body is null and the
\* then handler throws: the catch handler writes the failure.
DashboardFail ==
    /\ dashboardReqs > 0
    /\ dashboardReqs' = dashboardReqs - 1
    /\ dashboardCards' = [kind |-> "failed", values |-> << >>]
    /\ ev' = Event("dashboardFail", << >>)
    /\ UNCHANGED <<view, activePage, settingsRendered, markVars, studentsVars,
                   recordsVars, panelVars>>

\* A click on the nav item of the page: showPage('settings') runs
\* renderSettings, which writes the placeholder.
ShowPageSettings ==
    /\ activePage' = "settings"
    /\ settingsRendered' = TRUE
    /\ ev' = Event("showPageSettings", << >>)
    /\ UNCHANGED <<view, dashboardCards, dashboardReqs, markVars, studentsVars,
                   recordsVars, panelVars>>

\* A click on the nav item "logout": window.location.reload() is called and
\* showPage is not.  The handler changes nothing else; the browser then
\* discards the document, and what the next load does is another behaviour.
Logout ==
    /\ ev' = Event("logout", << >>)
    /\ UNCHANGED <<view, activePage, dashVars, markVars, studentsVars,
                   recordsVars, panelVars>>

\* The state showPage('dashboard') leaves as the script loads: the stats
\* are requested, and the settings page has not been rendered.
InitDashboard ==
    /\ dashboardCards = [kind |-> "loading", values |-> << >>]
    /\ dashboardReqs = 1
    /\ settingsRendered = FALSE

\* A session on the pages without controls.
NextDashboard ==
    \/ ShowPageDashboard
    \/ \E data \in DashboardResponses : DashboardOk(data)
    \/ DashboardFail
    \/ ShowPageSettings
    \/ Logout

\* ---------------------------------------------------------- specifications

\* The page a session starts on: the one a nav click has just rendered; the
\* dashboard, which the script shows as it loads, for the chat panel and
\* for the formatter.
PageOf(v) ==
    IF v \in MarkViews THEN "mark"
    ELSE IF v \in StudentsViews THEN "students"
    ELSE IF v \in RecordsViews THEN "records"
    ELSE IF v = "sectionForm" THEN "sections"
    ELSE "dashboard"

\* The state when the script has loaded (showPage('dashboard') has run) and
\* a click on the nav item of the page of session v has rendered that page.
\* A page that was not rendered keeps the state it is declared with.
InitView(v) ==
    /\ view = v
    /\ activePage = PageOf(v)
    /\ ev = Event("render", << >>)
    /\ InitDashboard
    /\ InitMark
    /\ IF v \in StudentsViews
       THEN InitStudents
       ELSE StudentsDeclared /\ studentsReqs = << >>
    /\ InitEdit
    /\ InitSections(v = "sectionForm")
    /\ InitRecords
    /\ IF v = "format" THEN InitFormat ELSE FormatIdle
    /\ InitChat

\* The sessions: the pages without controls, one of the three pages with
\* controls, the Add/Edit modal of the students page, the Delete
\* confirmation the students page shares with the sections page, the
\* Add/Edit modal of the sections page, the chat panel, or one call of the
\* chat formatter.
Views ==
    {"dashboard", "mark", "students", "records", "studentForm", "confirm",
     "sectionForm", "chat", "format"}

Init == \E page \in Views : InitView(page)

\* Every event handler and promise callback of the script, on whatever
\* page the user is.
Next ==
    \/ ShowPageDashboard
    \/ ShowPageSections
    \/ ShowPageStudents
    \/ ShowPageMark
    \/ ShowPageRecords
    \/ ShowPageSettings
    \/ Logout
    \/ \E data \in DashboardResponses : DashboardOk(data)
    \/ DashboardFail
    \/ \E list \in SectionLists : SectionsOk(list)
    \/ SectionsFail
    \/ \E id \in {NoSection} \cup CardIds : openSectionModal(id)
    \/ \E v \in SectionNameInputs : SectionNameInput(v)
    \/ SectionFormSubmit
    \/ closeSectionModal
    \/ \E i \in 1..Len(sectionWrites) : SectionSaveOk(i)
    \/ \E i \in 1..Len(sectionWrites) : SectionSaveFail(i)
    \/ \E id \in CardIds : confirmDeleteSection(id)
    \/ \E i \in 1..Len(sectionWrites) : SectionDeleteOk(i)
    \/ \E i \in 1..Len(sectionWrites) : SectionDeleteFail(i)
    \/ ConfirmOkClick
    \/ ConfirmCancel
    \/ \E v \in ListSearchTexts : StudentsSearchInput(v)
    \/ \E v \in SectionIds \cup {NoSection} : StudentsSectionChange(v)
    \/ \E v \in PerPageChoices : StudentsPerPageChange(v)
    \/ \E v \in SortColumns : StudentsSortClick(v)
    \/ \E which \in {"prev", "next"} : StudentsPageClick(which)
    \/ \E i \in 1..Len(studentsReqs) :
          \E list \in RowLists : \E total \in Totals : StudentsOk(i, list, total)
    \/ \E i \in 1..Len(studentsReqs) : StudentsSectionsOk(i)
    \/ \E i \in 1..Len(studentsReqs) : StudentsFail(i)
    \/ \E id \in {NoStudentId} \cup StudentIds : openStudentModal(id)
    \/ ModalSectionsOk
    \/ ModalSectionsFail
    \/ \E i \in 1..Len(studentGets) : StudentGetOk(i)
    \/ \E i \in 1..Len(studentGets) : StudentGetFail(i)
    \/ \E v \in FormFills : StudentFormFill(v)
    \/ StudentFormSubmit
    \/ StudentModalClose
    \/ \E i \in 1..Len(studentWrites) : StudentSaveOk(i)
    \/ \E i \in 1..Len(studentWrites) : StudentSaveFail(i)
    \/ \E id \in StudentIds : confirmDeleteStudent(id)
    \/ \E i \in 1..Len(studentWrites) : StudentDeleteOk(i)
    \/ \E i \in 1..Len(studentWrites) : StudentDeleteFail(i)
    \/ MarkLoadClick
    \/ \E i \in 1..Len(markLoads) :
          \E data \in RosterResponses(markLoads[i].section_id) : MarkLoadOk(i, data)
    \/ \E i \in 1..Len(markLoads) : MarkLoadFail(i)
    \/ \E v \in SectionIds \cup {NoSection} : MarkSectionChange(v)
    \/ \E v \in DateValues : MarkDateChange(v)
    \/ \E v \in SessionValues : MarkSessionChange(v)
    \/ \E v \in MarkSearchTexts : filterMarkTable(v)
    \/ \E k \in 1..Len(markTbody) : MarkToggle(k)
    \/ \E status \in {"present", "absent"} : MarkAll(status)
    \/ MarkSaveClick
    \/ MarkCtrlS
    \/ \E i \in 1..Len(markSaves) : MarkSaveOk(i)
    \/ \E i \in 1..Len(markSaves) : MarkSaveFail(i)
    \/ RecordsLoadClick
    \/ \E v \in SectionIds \cup {NoSection} : RecordsSectionChange(v)
    \/ \E v \in DateValues : RecordsDateChange(v)
    \/ \E v \in SessionValues : RecordsSessionChange(v)
    \/ \E v \in ListSearchTexts : RecordsSearchInput(v)
    \/ \E v \in PerPageChoices : RecordsPerPageChange(v)
    \/ \E which \in {"prev", "next"} : RecordsPageClick(which)
    \/ \E i \in 1..Len(recordsReqs) :
          \E list \in RowLists : \E total \in Totals : RecordsOk(i, list, total)
    \/ \E i \in 1..Len(recordsReqs) : RecordsFail(i)
    \/ \E v \in ChatInputs : ChatInput(v)
    \/ chatSend
    \/ \E i \in 1..Len(chatReqs) : \E data \in ChatData : ChatOk(i, data)
    \/ \E i \in 1..Len(chatReqs) : \E err \in ChatErrors : ChatFail(i, err)
    \/ FormatAiMessage

\* The whole application: the user goes from page to page.
Spec == Init /\ [][Next]_vars

\* The steps of the session a behaviour is: the events of its part of the
\* UI and the responses to its requests.
NextSession ==
    \/ view = "dashboard" /\ NextDashboard
    \/ view = "mark" /\ NextMark
    \/ view = "students" /\ NextStudents
    \/ view = "records" /\ NextRecords
    \/ view = "studentForm" /\ NextStudentForm
    \/ view = "confirm" /\ NextConfirm
    \/ view = "sectionForm" /\ NextSectionForm
    \/ view = "chat" /\ NextChat
    \/ view = "format" /\ NextFormat

\* Any one session.
SpecSession == Init /\ [][NextSession]_vars

\* A session on the pages without controls.
SpecDashboard == InitView("dashboard") /\ [][NextDashboard]_vars

\* A Mark-Attendance session.
SpecMark == InitView("mark") /\ [][NextMark]_vars

NextList == NextStudents \/ NextRecords

\* The chat formatter applied to one reply.
SpecFormat == InitView("format") /\ [][NextFormat]_vars

\* A session with the Add/Edit modal of the students page.
SpecStudentForm == InitView("studentForm") /\ [][NextStudentForm]_vars

\* A session with the Delete confirmation of the students page and of the
\* sections page.
SpecConfirm == InitView("confirm") /\ [][NextConfirm]_vars

\* A session with the Add/Edit modal of the sections page.
SpecSectionForm == InitView("sectionForm") /\ [][NextSectionForm]_vars

\* A session with the chat panel.
SpecChat == InitView("chat") /\ [][NextChat]_vars

\* A session on one of the two list views.
SpecList ==
    /\ \E page \in {"students", "records"} : InitView(page)
    /\ [][NextList]_vars

\* A response to a loadRecords request (the list has one page).
RecordsResponse ==
    \/ \E i \in 1..Len(recordsReqs) :
          \E list \in RowLists :
             RecordsOk(i, list, IF list = << >> THEN 0 ELSE 11)
    \/ \E i \in 1..Len(recordsReqs) : RecordsFail(i)

\* A response to a roster request with no attendance recorded yet.
MarkLoadResponse ==
    \/ \E i \in 1..Len(markLoads) :
          \E data \in RosterResponses(markLoads[i].section_id) :
             /\ \A k \in 1..Len(data) : data[k].status = ""
             /\ MarkLoadOk(i, data)
    \/ \E i \in 1..Len(markLoads) : MarkLoadFail(i)

\* A page on which the user goes on searching, selecting, loading and
\* saving while requests are in flight.
NextRace ==
    \/ \E v \in SectionIds : MarkSectionChange(v)
    \/ MarkLoadClick
    \/ MarkLoadResponse
    \/ \E k \in 1..Len(markTbody) : MarkToggle(k)
    \/ MarkSaveClick
    \/ activePage = "mark" /\ MarkCtrlS
    \/ \E i \in 1..Len(markSaves) : MarkSaveOk(i)
    \/ \E i \in 1..Len(markSaves) : MarkSaveFail(i)
    \/ \E v \in ListSearchTexts : StudentsSearchInput(v)
    \/ \E v \in SectionIds \cup {NoSection} : StudentsSectionChange(v)
    \/ StudentsResponse
    \/ RecordsLoadClick
    \/ \E v \in SectionIds \cup {NoSection} : RecordsSectionChange(v)
    \/ \E v \in ListSearchTexts : RecordsSearchInput(v)
    \/ RecordsResponse
    \/ activePage = "mark" /\ ShowPageMark
    \/ activePage = "students" /\ ShowPageStudents
    \/ activePage = "records" /\ ShowPageRecords

SpecRace ==
    /\ \E page \in RacingViews \cup {"markRace"} : InitView(page)
    /\ [][NextRace]_vars

\* ------------------------------------------------------------------ claims

\* The ids of the roster entries with the given status.
IdsWithStatus(students, status) ==
    {students[k].student_id : k \in {j \in 1..Len(students) : students[j].status = status}}

\* C1: every save request carries as absent_ids exactly the ids of the
\* roster entries that are absent when save is triggered, each once, and
\* never the id of an entry that is present.
C1_SaveCarriesAbsentIds ==
    [][Len(markSaves') > Len(markSaves) =>
          LET req == markSaves'[Len(markSaves')]
              sent == {req.absent_ids[k] : k \in 1..Len(req.absent_ids)}
          IN  /\ sent = IdsWithStatus(markAttendanceStudents, "absent")
              /\ sent \cap IdsWithStatus(markAttendanceStudents, "present") = {}
              /\ Cardinality(sent) = Len(req.absent_ids)]_vars

\* C1 happens: a save is in flight that carries an absent id while another
\* entry of the roster is present.
C1_Witness ==
    /\ ev.op \in {"markSaveClick", "markCtrlS"}
    /\ Len(markSaves) = 1
    /\ markSaves[1].absent_ids # << >>
    /\ IdsWithStatus(markAttendanceStudents, "present") # {}

LoadKey(r) == <<r.section_id, r.date, r.session>>

\* C2: when a save request succeeds, a roster load is issued whose
\* (section, date, session) equals the key the save request carried, and
\* save is enabled again when a load succeeds.
C2_ReloadSameKey ==
    [][/\ \A i \in 1..Len(markSaves) :
             MarkSaveOk(i) =>
                /\ Len(markLoads') = Len(markLoads) + 1
                /\ LoadKey(markLoads'[Len(markLoads')]) = LoadKey(markSaves[i])
       /\ ev'.op = "markLoadOk" => ~markSaveBtn'.disabled]_vars

\* C3: the counts of the summary panel are those of the roster: total is
\* the number of entries, present the number of entries with status
\* present, absent the number of entries with status absent, and
\* total = present + absent.
C3_CountsOfRoster ==
    markSummary.counts # NoCounts =>
        LET c == markSummary.counts IN
        /\ c.total = Len(markAttendanceStudents)
        /\ c.present = Cardinality({k \in 1..Len(markAttendanceStudents) :
                                       markAttendanceStudents[k].status = "present"})
        /\ c.absent = Cardinality({k \in 1..Len(markAttendanceStudents) :
                                      markAttendanceStudents[k].status = "absent"})
        /\ c.total = c.present + c.absent

\* C4: a failed save enables save again under its own label (#markSaveBtn
\* of the page shows "Save Attendance" and is enabled), shows the error,
\* leaves the roster, its statuses, the key and what is displayed as they
\* were, and issues no request.
C4_SaveFailureKeepsState ==
    [][ev'.op = "markSaveFail" =>
          /\ markSaveBtn' = [disabled |-> FALSE, html |-> "Save Attendance"]
          /\ ev'.toasts = <<ToastErr>>
          /\ markAttendanceStudents' = markAttendanceStudents
          /\ <<currentMarkSectionId, currentMarkDate, currentMarkSession>>' =
                 <<currentMarkSectionId, currentMarkDate, currentMarkSession>>
          /\ <<markTbody, markSummary, markEditingMode>>' =
                 <<markTbody, markSummary, markEditingMode>>
          /\ markLoads' = markLoads
          /\ Len(markSaves') = Len(markSaves) - 1]_vars

\* C5: once a control has changed, no roster is displayed and save is
\* disabled, and a filter edit, a toggle, a bulk-set or Ctrl+S that follows
\* leaves it so.
C5_UnselectedStaysCleared ==
    [][/\ ev'.op = "markControlChange" =>
             markTbody' = << >> /\ markSaveBtn'.disabled
       /\ ( /\ ev.op = "markControlChange"
            /\ ev'.op \in {"filterMarkTable", "markToggle", "markAllPresent",
                           "markAllAbsent", "markCtrlS"} )
          => markTbody' = << >> /\ markSaveBtn'.disabled]_vars

\* C6: a failed roster load shows the error and leaves save disabled and
\* no roster held.
C6_LoadFailureUnselected ==
    [][ev'.op = "markLoadFail" =>
          /\ ev'.toasts = <<ToastErr>>
          /\ markSaveBtn'.disabled
          /\ markAttendanceStudents' = << >>]_vars

\* C7: a successful load sets the editing-mode flag (and the warning) to
\* whether some loaded entry is neither present nor without a status;
\* toggles, bulk-sets and saves leave the flag alone.
C7_EditingModeFlag ==
    [][/\ ev'.op = "markLoadOk" =>
             /\ markEditingMode' =
                   (\E k \in 1..Len(markAttendanceStudents') :
                       markAttendanceStudents'[k].status \in {"absent", "late"})
             /\ markWarning' = markEditingMode'
       /\ ev'.op \in {"markToggle", "markAllPresent", "markAllAbsent",
                      "markSaveClick", "markCtrlS", "markSaveOk", "markSaveFail"}
          => markEditingMode' = markEditingMode]_vars

\* C7 happens: the flag a load set is still set after the toggle that made
\* every entry present.
C7_Witness ==
    /\ ev.op = "markToggle"
    /\ markEditingMode
    /\ markAttendanceStudents # << >>
    /\ \A k \in 1..Len(markAttendanceStudents) :
          markAttendanceStudents[k].status = "present"

\* C8: a filter edit changes the displayed rows only: the roster, its
\* statuses and the summary stay as they were; and in every state the
\* counts of the summary are those of the full roster.
C8_FilterOnlyDisplay ==
    [][/\ ev'.op = "filterMarkTable" =>
             /\ markAttendanceStudents' = markAttendanceStudents
             /\ markSummary' = markSummary
             /\ markSearch' # markSearch
       /\ markSummary'.counts # NoCounts =>
             /\ markSummary'.counts.total = Len(markAttendanceStudents')
             /\ markSummary'.counts.present =
                   Cardinality({k \in 1..Len(markAttendanceStudents') :
                                   markAttendanceStudents'[k].status = "present"})
             /\ markSummary'.counts.absent =
                   markSummary'.counts.total - markSummary'.counts.present]_vars

\* C8 happens: the filter hides a row of a roster of two while the summary
\* shows the counts of both.
C8_Witness ==
    /\ ev.op = "filterMarkTable"
    /\ Len(markAttendanceStudents) = 2
    /\ Len(markTbody) = 1
    /\ markSummary.display
    /\ markSummary.counts.total = 2

\* C9: a search edit, a section-filter change and a page-size change set
\* page to 1; a sort click leaves page as it is.
C9_PageReset ==
    [][/\ ev'.op \in {"studentsSearchInput", "studentsSectionChange",
                      "studentsPerPageChange"} => studentsPage' = 1
       /\ ev'.op = "studentsSortClick" => studentsPage' = studentsPage
       /\ ev'.op \in {"recordsSearchInput", "recordsSectionChange",
                      "recordsDateChange", "recordsSessionChange",
                      "recordsPerPageChange"} => recordsPage' = 1]_vars

\* C9 happens: a search edit has reset the page while the bar still shows
\* the page it left.
C9_Witness ==
    /\ ev.op = "studentsSearchInput"
    /\ studentsPage = 1
    /\ studentsPagination.buttons
    /\ studentsPagination.page > 1

\* Previous was clicked at page 1, or Next at the last page of the bar.
StudentsBoundaryClick ==
    \/ ev'.op = "studentsPrev" /\ studentsPage = 1
    \/ ev'.op = "studentsNext" /\ studentsPage = studentsPagination.totalPages

RecordsBoundaryClick ==
    \/ ev'.op = "recordsPrev" /\ recordsPage = 1
    \/ ev'.op = "recordsNext" /\ recordsPage = recordsPagination.totalPages

\* C10 as claimed: Previous at page 1 and Next at the last page change
\* nothing: the query state, what is displayed and the requests in flight
\* are as they were.
C10_BoundaryClickNoOp ==
    [][/\ StudentsBoundaryClick => UNCHANGED studentsVars
       /\ RecordsBoundaryClick => UNCHANGED recordsVars]_vars

\* C10 as amended: Previous at page 1 and Next at the last page leave the
\* page, the rest of the query state and the pagination bar as they were,
\* and the list is loaded again: one request with the unchanged query state
\* is issued (on the records view only with a section and a date selected;
\* without, the prompt row is written and nothing is issued).
C10_BoundaryClickReloads ==
    [][/\ StudentsBoundaryClick =>
             /\ UNCHANGED <<studentsQuery, studentsTotal, studentsTbody,
                            studentsPagination>>
             /\ studentsReqs' = Append(studentsReqs,
                   [stage |-> "students",
                    q |-> [page |-> studentsPage, per_page |-> studentsPerPage,
                           sort_by |-> studentsSortBy,
                           section_id |-> studentsSectionId,
                           search |-> studentsSearch],
                    list |-> << >>])
       /\ RecordsBoundaryClick =>
             /\ UNCHANGED <<recordsQuery, recordsPagination>>
             /\ IF recordsSection # NoSection /\ recordsDate # ""
                THEN /\ recordsTbody' = recordsTbody
                     /\ recordsReqs' = Append(recordsReqs,
                           [section_id |-> recordsSection, date |-> recordsDate,
                            session |-> recordsSession, page |-> recordsPage,
                            per_page |-> recordsPerPage, search |-> recordsSearch])
                ELSE /\ recordsTbody' = PromptTbody
                     /\ recordsReqs' = recordsReqs]_vars

\* C10 happens: Previous was clicked on a bar that shows page 1, the page is
\* still 1 and the request of the click is in flight.
C10_Witness ==
    /\ ev.op = "studentsPrev"
    /\ studentsPage = 1
    /\ studentsPagination.buttons
    /\ studentsPagination.page = 1
    /\ Len(studentsReqs) = 1

\* The handlers of the user actions of the students view.
StudentsUserOps ==
    {"studentsSearchInput", "studentsSectionChange", "studentsPerPageChange",
     "studentsSortClick", "studentsPrev", "studentsNext"}

\* The handlers of the user actions of the records view that the list
\* state machine names (the Load button is apart).
RecordsUserOps ==
    {"recordsSearchInput", "recordsSectionChange", "recordsDateChange",
     "recordsSessionChange", "recordsPerPageChange", "recordsPrev",
     "recordsNext"}

\* The students request that carries the query state of the next state.
StudentsRequestAfter ==
    [stage |-> "students",
     q |-> [page |-> studentsPage', per_page |-> studentsPerPage',
            sort_by |-> studentsSortBy', section_id |-> studentsSectionId',
            search |-> studentsSearch'],
     list |-> << >>]

\* The records request that carries the query state of the next state.
RecordsRequestAfter ==
    [section_id |-> recordsSection', date |-> recordsDate',
     session |-> recordsSession', page |-> recordsPage',
     per_page |-> recordsPerPage', search |-> recordsSearch']

\* C11 as claimed: every user action on a list view issues exactly one
\* fetch request, which carries the query state as it stands right after
\* the action.
C11_ActionIssuesOneFetch ==
    [][/\ ev'.op \in StudentsUserOps =>
             studentsReqs' = Append(studentsReqs, StudentsRequestAfter)
       /\ ev'.op \in RecordsUserOps =>
             recordsReqs' = Append(recordsReqs, RecordsRequestAfter)]_vars

\* C11 as amended: every user action on the students view issues exactly
\* one fetch request carrying the query state as it stands right after the
\* action; a user action on the records view (the Load button included)
\* does so when a section and a date are selected, and otherwise writes
\* the prompt row and issues nothing.
C11_ActionIssuesFetchIfSelected ==
    [][/\ ev'.op \in StudentsUserOps =>
             studentsReqs' = Append(studentsReqs, StudentsRequestAfter)
       /\ ev'.op \in RecordsUserOps \cup {"recordsLoadClick"} =>
             IF recordsSection' # NoSection /\ recordsDate' # ""
             THEN /\ recordsReqs' = Append(recordsReqs, RecordsRequestAfter)
                  /\ recordsTbody' = recordsTbody
             ELSE /\ recordsReqs' = recordsReqs
                  /\ recordsTbody' = PromptTbody]_vars

\* C11 happens: a page-size change on the records view, made with a section
\* and a date selected, has its request in flight with the new page size.
C11_Witness ==
    /\ ev.op = "recordsPerPageChange"
    /\ recordsSection # NoSection
    /\ recordsPerPage = 50
    /\ Len(recordsReqs) = 1
    /\ recordsReqs[1].per_page = 50
    /\ recordsReqs[1].page = 1


\* The lines the scan of the call of fmtRaw goes over.
FmtLines == Split(ReplaceStrong(escapeHtml(OrEmpty(fmtRaw)), 1), "\n")

\* The blocks of `lines` from i on: the maximal runs of table rows.
RECURSIVE Blocks(_, _)
Blocks(lines, i) ==
    IF i > Len(lines) THEN << >>
    ELSE LET n == RowRun(lines, i)
         IN  IF n = 0 THEN Blocks(lines, i + 1)
             ELSE <<SubSeq(lines, i, i + n - 1)>> \o Blocks(lines, i + n)

IsTableItem(item) == item # << >> /\ item[1] = TableOpen

\* The tables among the output items.
TableItems(out) == SelectSeq(out, IsTableItem)

\* The rows of `rows`, each rendered as a body row.
RECURSIVE BodyRows(_)
BodyRows(rows) ==
    IF rows = << >> THEN << >>
    ELSE <<"<tr>">> \o CellsHtml(Cells(rows[1]), "td") \o <<"</tr>">>
         \o BodyRows(Tail(rows))

\* The table of a block whose first row is the header and whose second
\* row is discarded (header), or whose rows are all body rows.
TableOf(block, header) ==
    <<TableOpen>>
    \o (IF header
        THEN <<"<tr>">> \o CellsHtml(Cells(block[1]), "th") \o <<"</tr>">>
             \o BodyRows(SubSeq(block, 3, Len(block)))
        ELSE BodyRows(block))
    \o <<"</table>">>

\* A row that, with all whitespace removed, consists only of pipes, dashes
\* and colons.
OnlySeparatorChars(row) ==
    \A k \in 1..Len(row) : row[k] \in {"|", "-", ":"} \cup Whitespace

\* The same, with at least one pipe, dash or colon between the first and
\* the last pipe.
SeparatorWithInterior(row) ==
    /\ OnlySeparatorChars(row)
    /\ Len(RemoveWhitespace(row)) >= 3

\* C12 as claimed: the first row of a block is the header iff the block has
\* at least two rows and the second row, with all whitespace removed,
\* consists only of pipes, dashes and colons; then the second row is
\* discarded and the other rows are body rows; otherwise every row is a
\* body row.
C12_HeaderIffSeparatorChars ==
    fmtReturned =>
        LET blocks == Blocks(FmtLines, 1)
            tables == TableItems(fmtOut)
        IN  /\ Len(tables) = Len(blocks)
            /\ \A k \in 1..Len(blocks) :
                  tables[k] = TableOf(blocks[k],
                                 /\ Len(blocks[k]) >= 2
                                 /\ OnlySeparatorChars(blocks[k][2]))

\* C12 as amended: the second row must also hold, between its first and
\* its last pipe, at least one pipe, dash or colon: a second row with
\* nothing but whitespace between its two pipes is a body row and the
\* block has no header.
C12_HeaderIffSeparatorRow ==
    fmtReturned =>
        LET blocks == Blocks(FmtLines, 1)
            tables == TableItems(fmtOut)
        IN  /\ Len(tables) = Len(blocks)
            /\ \A k \in 1..Len(blocks) :
                  tables[k] = TableOf(blocks[k],
                                 /\ Len(blocks[k]) >= 2
                                 /\ SeparatorWithInterior(blocks[k][2]))

\* C12 happens: a block of three rows was rendered with its first row as
\* the header and one body row.
C12_Witness ==
    /\ fmtReturned
    /\ Len(FmtLines) = 3
    /\ Len(Blocks(FmtLines, 1)) = 1
    /\ Len(fmtOut) = 1
    /\ Len(SelectSeq(fmtOut[1], LAMBDA c : c = "<th>")) >= 1
    /\ Len(SelectSeq(fmtOut[1], LAMBDA c : c = "<tr>")) = 2


\* The lines of the argument of the call, as given.
RawLines == Split(OrEmpty(fmtRaw).text, "\n")

\* A pipe-delimited line: trimmed, it begins and ends with a pipe and has
\* at least one character between the two.
PipeDelimited(line) ==
    LET t == Trim(line)
    IN  Len(t) >= 3 /\ t[1] = "|" /\ t[Len(t)] = "|"

NoPipeDelimitedLine == \A k \in 1..Len(RawLines) : ~PipeDelimited(RawLines[k])

\* The input rendered as text: escaped, its double-asterisk pairs turned
\* into strong emphasis and its line breaks into <br>.
RenderedAsText(raw) == ReplaceNewlines(ReplaceStrong(escapeHtml(OrEmpty(raw)), 1))

\* C13: when no line of the input is pipe-delimited the output holds no
\* table and is the whole input, all lines in order, rendered as text; for
\* null and for the empty string the call returns the empty string.
C13_NoRowsPlainText ==
    /\ (fmtReturned /\ NoPipeDelimitedLine) =>
          /\ \A k \in 1..Len(fmtHtml) :
                fmtHtml[k] \notin {TableOpen, "<tr>", "<th>", "<td>"}
          /\ Len(fmtOut) = Len(RawLines)
          /\ fmtHtml = RenderedAsText(fmtRaw)
    /\ (fmtReturned /\ OrEmpty(fmtRaw).text = << >>) => fmtHtml = << >>

\* C13 happens: a reply of three lines, none pipe-delimited, one of them
\* two pipes and one with the characters of markup, was formatted.
C13_Witness ==
    /\ fmtReturned
    /\ NoPipeDelimitedLine
    /\ Len(RawLines) = 3
    /\ \E k \in 1..3 : RawLines[k] = <<"|", "|">>
    /\ \E k \in 1..3 : RawLines[k] = <<"<", "b", ">", "&">>
    /\ Len(SelectSeq(fmtHtml, LAMBDA c : c = "<br>")) = 2


\* What one input line becomes in the output: a line of text, or the cells
\* of a table row.
TextEntry(text) == [kind |-> "text", text |-> text, cells |-> << >>]

RowEntry(cells) == [kind |-> "row", text |-> << >>, cells |-> cells]

\* The segments of s that end with `close`, each without its first piece
\* (the opening tag) and without `close`.
Enclosed(s, close) ==
    LET parts == Split(s, close)
    IN  [k \in 1..(Len(parts) - 1) |-> Tail(parts[k])]

\* The rows of a table of the output, read back from its markup.
RowsOfTable(item) ==
    LET inner == SubSeq(item, 2, Len(item) - 1)
        plain == [k \in 1..Len(inner) |->
                     IF inner[k] = "<th>" THEN "<td>"
                     ELSE IF inner[k] = "</th>" THEN "</td>"
                     ELSE inner[k]]
        rows == Enclosed(plain, "</tr>")
    IN  [k \in 1..Len(rows) |-> RowEntry(Enclosed(rows[k], "</td>"))]

\* The output items read back as entries, in the order of the output.
RECURSIVE EntriesOfOutput(_)
EntriesOfOutput(out) ==
    IF out = << >> THEN << >>
    ELSE (IF IsTableItem(out[1]) THEN RowsOfTable(out[1])
                                 ELSE <<TextEntry(out[1])>>)
         \o EntriesOfOutput(Tail(out))

\* Line k of `lines` is the second row of its block.
SecondRowOfBlock(lines, k) ==
    /\ k >= 2
    /\ IsTableRow(lines[k])
    /\ IsTableRow(lines[k - 1])
    /\ (k >= 3 => ~IsTableRow(lines[k - 2]))

\* The entries the input lines give, line by line in the order of the
\* input, the discarded separator rows left out.
RECURSIVE EntriesOfInput(_, _)
EntriesOfInput(lines, k) ==
    IF k > Len(lines) THEN << >>
    ELSE (IF SecondRowOfBlock(lines, k) /\ SeparatorWithInterior(lines[k])
          THEN << >>
          ELSE IF IsTableRow(lines[k]) THEN <<RowEntry(Cells(lines[k]))>>
          ELSE <<TextEntry(lines[k])>>)
         \o EntriesOfInput(lines, k + 1)

\* C14: read back from the output, the lines of text and the table rows
\* are those of the input in the order of the input: none is reordered,
\* duplicated or dropped, the discarded separator rows apart.
C14_OrderPreserved ==
    fmtReturned =>
        /\ EntriesOfOutput(fmtOut) = EntriesOfInput(FmtLines, 1)
        /\ EntriesOfOutput(Split(fmtHtml, "<br>")) = EntriesOfInput(FmtLines, 1)

\* C14 happens: text, a table and text again were formatted into three
\* items in that order.
C14_Witness ==
    /\ fmtReturned
    /\ Len(FmtLines) = 3
    /\ ~IsTableRow(FmtLines[1]) /\ FmtLines[1] # << >>
    /\ IsTableRow(FmtLines[2])
    /\ ~IsTableRow(FmtLines[3]) /\ FmtLines[3] # FmtLines[1]
    /\ Len(fmtOut) = 3
    /\ fmtOut[1] = FmtLines[1]
    /\ IsTableItem(fmtOut[2])
    /\ fmtOut[3] = FmtLines[3]


\* The number of pieces of s that are c.
Count(s, c) == Len(SelectSeq(s, LAMBDA x : x = c))

\* The number of double-asterisk pairs of s, from i on, that the
\* substitution turns into emphasis.
RECURSIVE StrongCount(_, _)
StrongCount(s, i) ==
    IF i > Len(s) THEN 0
    ELSE LET k == StrongAt(s, i)
         IN  IF k > 0 THEN 1 + StrongCount(s, i + 4 + k)
             ELSE StrongCount(s, i + 1)

\* C15: no character of markup of the input reaches the output as it is:
\* each "<", ">" and "&" of the input is in the output once, escaped, and
\* nothing else is escaped; the emphasis, the table structure and the line
\* breaks the formatter inserts are in the output as markup.
C15_EscapedBeforeMarkup ==
    fmtReturned =>
        LET text == OrEmpty(fmtRaw).text
        IN  /\ \A k \in 1..Len(fmtHtml) : fmtHtml[k] \notin {"<", ">", "&"}
            /\ Count(fmtHtml, "&lt;") = Count(text, "<")
            /\ Count(fmtHtml, "&gt;") = Count(text, ">")
            /\ Count(fmtHtml, "&amp;") = Count(text, "&")
            /\ Count(fmtHtml, "<strong>") = StrongCount(text, 1)
            /\ Count(fmtHtml, "</strong>") = StrongCount(text, 1)
            /\ Count(fmtHtml, "<br>") = Len(fmtOut) - 1
            /\ Count(fmtHtml, TableOpen) = Len(Blocks(FmtLines, 1))
            /\ Count(fmtHtml, "</table>") = Len(Blocks(FmtLines, 1))

\* C15 happens: a reply with markup characters inside a table row and
\* with a double-asterisk pair was formatted.
C15_Witness ==
    /\ fmtReturned
    /\ Count(OrEmpty(fmtRaw).text, "<") = 2
    /\ Count(fmtHtml, "&lt;") = 2
    /\ Count(fmtHtml, "&amp;") = 1
    /\ Count(fmtHtml, "<strong>") = 1
    /\ Count(fmtHtml, "<td>") >= 2
    /\ Count(fmtHtml, "<br>") >= 1


\* The messages of a role in the conversation.
MessagesOf(role) == SelectSeq(chatMessages, LAMBDA m : m.role = role)

\* The bodies a fallback message may have.
FallbackBodies ==
    {AiBody(FallbackText(err)) : err \in ChatErrors \cup {[message |-> << >>]}}

\* C16: every question sent has its request in flight or exactly one
\* assistant message (so a resolved request has appended exactly one
\* message, whether it succeeded or failed), an empty question sends
\* nothing, and the message a failure appends is the fallback text.
C16_OneAnswerPerQuestion ==
    /\ [](Len(MessagesOf("user")) = Len(MessagesOf("ai")) + Len(chatReqs))
    /\ [][/\ ev'.op \in {"chatOk", "chatFail"} =>
               /\ Len(chatReqs') = Len(chatReqs) - 1
               /\ Len(chatMessages') = Len(chatMessages) + 1
               /\ SubSeq(chatMessages', 1, Len(chatMessages)) = chatMessages
               /\ chatMessages'[Len(chatMessages')].role = "ai"
          /\ ev'.op = "chatFail" =>
               chatMessages'[Len(chatMessages')].body \in FallbackBodies
          /\ ev'.op = "chatSend" =>
               IF Trim(chatInput) = << >>
               THEN UNCHANGED <<chatMessages, chatReqs>>
               ELSE /\ chatReqs' = Append(chatReqs, [question |-> Trim(chatInput)])
                    /\ Len(MessagesOf("user")') = Len(MessagesOf("user")) + 1
                    /\ Len(MessagesOf("ai")') = Len(MessagesOf("ai"))
          /\ ev'.op = "chatInput" => UNCHANGED <<chatMessages, chatReqs>>]_vars

\* C16 happens: two questions were sent, the first was answered by a
\* failure with the fallback text and the second by a reply.
C16_Witness ==
    /\ view = "chat"
    /\ chatReqs = << >>
    /\ Len(chatMessages) = 4
    /\ chatMessages[1].role = "user"
    /\ chatMessages[2].role = "ai"
    /\ chatMessages[2].body \in FallbackBodies
    /\ chatMessages[3].role = "user"
    /\ chatMessages[4].role = "ai"
    /\ chatMessages[4].body = AiBody(<<"o", "k">>)


\* The handlers of a rejected request.
FailureOps ==
    {"studentsFail", "recordsFail", "markLoadFail", "markSaveFail",
     "studentGetFail", "modalSectionsFail", "studentSaveFail",
     "studentDeleteFail", "sectionsFail", "sectionSaveFail",
     "sectionDeleteFail", "chatFail", "dashboardFail"}

\* The number of requests in flight.
InFlight ==
    Len(studentsReqs) + Len(recordsReqs) + Len(markLoads) + Len(markSaves)
    + modalSectionsReqs + Len(studentGets) + Len(studentWrites) + Len(chatReqs)
    + sectionsReqs + Len(sectionWrites) + dashboardReqs

\* C17: the handler of a rejected request issues no request: the rejected
\* request leaves the requests in flight and none joins them, of any kind.
C17_NoRequestOnFailure ==
    [][ev'.op \in FailureOps =>
          /\ InFlight' = InFlight - 1
          /\ Len(studentsReqs') <= Len(studentsReqs)
          /\ Len(recordsReqs') <= Len(recordsReqs)
          /\ Len(markLoads') <= Len(markLoads)
          /\ Len(markSaves') <= Len(markSaves)
          /\ modalSectionsReqs' <= modalSectionsReqs
          /\ Len(studentGets') <= Len(studentGets)
          /\ Len(studentWrites') <= Len(studentWrites)
          /\ Len(chatReqs') <= Len(chatReqs)
          /\ sectionsReqs' <= sectionsReqs
          /\ Len(sectionWrites') <= Len(sectionWrites)
          /\ dashboardReqs' <= dashboardReqs]_vars

\* C17 happens: the list fetch of the students page was rejected, the
\* failure row is displayed and no request of the page is in flight.
C17_Witness ==
    /\ ev.op = "studentsFail"
    /\ studentsTbody = FailedTbody
    /\ InFlight = dashboardReqs


\* The handlers that call loadMarkAttendance.
MarkLoadOps == {"markLoadClick", "markSaveOk"}

\* A value of ev.toasts holds the toast t.
Toasted(toasts, t) == \E k \in 1..Len(toasts) : toasts[k] = t

\* C18: every roster request carries a section and a date; a load with the
\* section or the date missing issues no request, toasts the validation
\* error and leaves the key, the roster and the editing-mode flag as they
\* were.
C18_LoadValidated ==
    /\ [](\A k \in 1..Len(markLoads) :
             markLoads[k].section_id # NoSection /\ markLoads[k].date # "")
    /\ [][(ev'.op \in MarkLoadOps /\ (markSection = NoSection \/ markDate = ""))
            => /\ markLoads' = markLoads
               /\ Toasted(ev'.toasts, ToastSelect)
               /\ UNCHANGED markJs]_vars

\* C18 happens: Load Students was clicked with no section selected while a
\* key and a roster were held; the error is toasted and both are still held.
C18_Witness ==
    /\ ev.op = "markLoadClick"
    /\ Toasted(ev.toasts, ToastSelect)
    /\ markSection = NoSection
    /\ currentMarkSectionId # NoSection
    /\ markAttendanceStudents # << >>
    /\ markLoads = << >>


\* C19: whenever a save request is issued, the roster its absent list is
\* computed from was built from the response of a load of exactly the
\* (section, date, session) the save request carries.
C19_SaveRosterOfKey ==
    [][Len(markSaves') > Len(markSaves) =>
          LoadKey(markRosterKey) = LoadKey(markSaves'[Len(markSaves')])]_vars


\* The handlers that render the response to a list fetch.
ListResponseOps == {"studentsSectionsOk", "recordsOk"}

\* The request the current query state of the students page makes.
StudentsCurrentQuery ==
    StudentsQueryOf(studentsPage, studentsPerPage, studentsSortBy,
                    studentsSectionId, studentsSearch)

\* The request the current query state of the records page makes.
RecordsCurrentQuery ==
    RecordsQueryOf(recordsPage, recordsPerPage, recordsSearch,
                   recordsSection, recordsDate, recordsSession)

\* C20: a list fetch is issued beside the fetches already in flight, which
\* all stay in flight (also one for the same query state), and every
\* response is rendered when it arrives, whichever request it answers and
\* whatever the query state is by then.
C20_ResponsesAppliedOnArrival ==
    [][/\ Len(studentsReqs') > Len(studentsReqs) =>
             SubSeq(studentsReqs', 1, Len(studentsReqs)) = studentsReqs
       /\ Len(recordsReqs') > Len(recordsReqs) =>
             SubSeq(recordsReqs', 1, Len(recordsReqs)) = recordsReqs
       /\ ev'.op = "studentsSectionsOk" =>
             /\ \E i \in 1..Len(studentsReqs) :
                   /\ studentsReqs' = RemoveAt(studentsReqs, i)
                   /\ studentsReqs[i].q = ev'.q
             /\ studentsTbody' = Rows(ev'.list)
       /\ ev'.op = "recordsOk" =>
             /\ \E i \in 1..Len(recordsReqs) :
                   /\ recordsReqs' = RemoveAt(recordsReqs, i)
                   /\ recordsReqs[i] = ev'.q
             /\ recordsTbody' = Rows(ev'.list)]_vars

\* C20 happens: every records fetch has been answered, the one answered
\* last was issued for a query state other than the current one, which is
\* the one of the fetch issued last, and its rows are displayed.
C20_Witness ==
    /\ ev.op = "recordsOk"
    /\ recordsSection # NoSection
    /\ recordsDate # ""
    /\ ev.q # RecordsCurrentQuery
    /\ recordsReqs = << >>
    /\ ev.list # << >>
    /\ recordsTbody = Rows(ev.list)

\* C21: save is disabled while a roster load or a save request is in
\* flight, at most one save request is in flight, and no save request is
\* issued while a load is pending.
C21_SaveDisabledInFlight ==
    /\ [](/\ (markLoads # << >> \/ markSaves # << >>) => markSaveBtn.disabled
          /\ Len(markSaves) <= 1)
    /\ [][Len(markSaves') > Len(markSaves) => markLoads = << >>]_vars


\* C22: in every state, after a load and after any toggle or bulk-set, each
\* roster entry is present or absent (a load marks absent the entries the
\* response marks absent and present all others).
C22_StatusPresentOrAbsent ==
    \A k \in 1..Len(markAttendanceStudents) :
       markAttendanceStudents[k].status \in {"present", "absent"}

\* C23: when a list fetch fails the failure row is displayed and nothing of
\* the earlier response is left: no rows, no total and no Previous/Next
\* buttons.
C23_FailureDiscardsPrior ==
    [][/\ ev'.op = "studentsFail" =>
             /\ studentsTbody' = FailedTbody
             /\ ~studentsPagination'.shown
             /\ ~studentsPagination'.buttons
       /\ ev'.op = "recordsFail" =>
             /\ recordsTbody' = FailedTbody
             /\ ~recordsPagination'.shown
             /\ ~recordsPagination'.buttons]_vars


\* C24: in every state of a list view the page number is at least 1, and
\* where "Page <page> of <totalPages>" is displayed the page does not exceed
\* the total number of pages.
C24_PageWithinPages ==
    /\ studentsPage >= 1
    /\ recordsPage >= 1
    /\ studentsPagination.buttons =>
          studentsPagination.page <= studentsPagination.totalPages
    /\ recordsPagination.buttons =>
          recordsPagination.page <= recordsPagination.totalPages


\* C25: a pagination bar holds the Previous and Next buttons only with more
\* than one page, and a response writes them exactly when its total makes
\* more than one page of the current page size.
C25_ButtonsIffSeveralPages ==
    /\ [](/\ studentsPagination.buttons => studentsPagination.totalPages > 1
          /\ recordsPagination.buttons => recordsPagination.totalPages > 1)
    /\ [][/\ ev'.op = "studentsSectionsOk" =>
                (studentsPagination'.buttons
                   <=> TotalPages(studentsPagination'.total, studentsPerPage) > 1)
          /\ ev'.op = "recordsOk" =>
                (recordsPagination'.buttons
                   <=> TotalPages(recordsPagination'.total, recordsPerPage) > 1)]_vars

\* C25 happens: a response with a total of one page has been rendered (no
\* buttons) on a page whose earlier response had made several pages.
C25_Witness ==
    /\ ev.op = "recordsOk"
    /\ recordsPagination.shown
    /\ recordsPagination.total > 0
    /\ TotalPages(recordsPagination.total, recordsPerPage) = 1
    /\ ~recordsPagination.buttons
    /\ recordsPage > 1

\* The ids of the roster, in roster order.
RosterIds(students) == [k \in 1..Len(students) |-> students[k].student_id]

\* C26: 'all present' makes every roster entry present, also those the text
\* filter hides: the absent count is 0 and a save would send no id.  'all
\* absent' makes every entry absent: the present count is 0 and a save
\* would send every roster id.  The entries are otherwise unchanged.
C26_BulkSetReachesAll ==
    [][/\ ev'.op \in {"markAllPresent", "markAllAbsent"} =>
             /\ Len(markAttendanceStudents') = Len(markAttendanceStudents)
             /\ RosterIds(markAttendanceStudents') = RosterIds(markAttendanceStudents)
       /\ ev'.op = "markAllPresent" =>
             /\ \A k \in 1..Len(markAttendanceStudents') :
                   markAttendanceStudents'[k].status = "present"
             /\ markSummary'.counts.absent = 0
             /\ AbsentIds(markAttendanceStudents') = << >>
       /\ ev'.op = "markAllAbsent" =>
             /\ \A k \in 1..Len(markAttendanceStudents') :
                   markAttendanceStudents'[k].status = "absent"
             /\ markSummary'.counts.present = 0
             /\ AbsentIds(markAttendanceStudents') = RosterIds(markAttendanceStudents')]_vars

\* C26 happens: 'all absent' was clicked on a roster of which the text
\* filter hides an entry; the hidden entry is absent too.
C26_Witness ==
    /\ ev.op = "markAllAbsent"
    /\ markSearch # << >>
    /\ markTbody # << >>
    /\ Len(markTbody) < Len(markAttendanceStudents)
    /\ markSummary.counts.absent = Len(markAttendanceStudents)


\* The lines of text of the output, in the order of the output.
TextOfOutput == SelectSeq(EntriesOfOutput(fmtOut), LAMBDA e : e.kind = "text")

\* C27: a line is treated as a table row iff, trimmed, it begins and ends
\* with a pipe and has at least one character between the two: the lines
\* rendered as text are exactly the other lines, in order.
C27_RowIffTrimmedPipeDelimited ==
    fmtReturned =>
        TextOfOutput =
           [k \in 1..Len(SelectSeq(FmtLines, LAMBDA l : ~PipeDelimited(l))) |->
               TextEntry(SelectSeq(FmtLines, LAMBDA l : ~PipeDelimited(l))[k])]


\* The positions of the pipes of a row, left to right.
RECURSIVE PipesFrom(_, _)
PipesFrom(row, i) ==
    IF i > Len(row) THEN << >>
    ELSE (IF row[i] = "|" THEN <<i>> ELSE << >>) \o PipesFrom(row, i + 1)

\* What lies between each pipe of a row and the next, trimmed.
BetweenPipes(row) ==
    LET p == PipesFrom(row, 1)
    IN  [j \in 1..(Len(p) - 1) |-> Trim(SubSeq(row, p[j] + 1, p[j + 1] - 1))]

\* The rows of a block that are rendered: all but a separator row.
RetainedRows(block) ==
    IF SkipSep(block) THEN <<block[1]>> \o SubSeq(block, 3, Len(block)) ELSE block

\* C28: every rendered row of every table holds, left to right, what lies
\* between each pipe of its line and the next, trimmed: k - 1 cells for k
\* pipes, whatever the number of cells of the other rows of the block; and
\* a reply that is one pipe-delimited line is rendered as one table of one
\* body row.
C28_CellsBetweenPipes ==
    fmtReturned =>
        LET blocks == Blocks(FmtLines, 1)
            tables == TableItems(fmtOut)
        IN  /\ Len(tables) = Len(blocks)
            /\ \A b \in 1..Len(blocks) :
                  LET rows == RetainedRows(blocks[b])
                      shown == RowsOfTable(tables[b])
                  IN  /\ Len(shown) = Len(rows)
                      /\ \A r \in 1..Len(rows) :
                            /\ shown[r].cells = BetweenPipes(rows[r])
                            /\ Len(shown[r].cells) = Len(PipesFrom(rows[r], 1)) - 1
            /\ (Len(FmtLines) = 1 /\ PipeDelimited(FmtLines[1])) =>
                  /\ Len(fmtOut) = 1
                  /\ IsTableItem(fmtOut[1])
                  /\ Count(fmtOut[1], "<tr>") = 1
                  /\ Count(fmtOut[1], "<th>") = 0
                  /\ Count(fmtOut[1], "<td>") = Len(PipesFrom(FmtLines[1], 1)) - 1

\* The number of maximal runs of consecutive pipe-delimited lines of
\* `lines` from i on; inRun: line i - 1 is pipe-delimited.
RECURSIVE RunsFrom(_, _, _)
RunsFrom(lines, i, inRun) ==
    IF i > Len(lines) THEN 0
    ELSE IF PipeDelimited(lines[i])
         THEN (IF inRun THEN 0 ELSE 1) + RunsFrom(lines, i + 1, TRUE)
         ELSE RunsFrom(lines, i + 1, FALSE)

\* The number of separator rows the scan discards.
RECURSIVE Discarded(_)
Discarded(blocks) ==
    IF blocks = << >> THEN 0
    ELSE (IF SkipSep(blocks[1]) THEN 1 ELSE 0) + Discarded(Tail(blocks))

\* C29: the scan returns for every input having consumed each line once
\* (each line is one line of text or one row of the output, or a discarded
\* separator row), and every maximal run of consecutive table-row lines is
\* one table: no two tables are adjacent in the output.
C29_ScanConsumesOnceMaximalBlocks ==
    fmtReturned =>
        /\ Len(EntriesOfOutput(fmtOut)) + Discarded(Blocks(FmtLines, 1))
              = Len(FmtLines)
        /\ Len(TableItems(fmtOut)) = RunsFrom(FmtLines, 1, FALSE)
        /\ \A k \in 1..(Len(fmtOut) - 1) :
              ~(IsTableItem(fmtOut[k]) /\ IsTableItem(fmtOut[k + 1]))

\* C30: a submit of the student form that issues a request issues a create
\* when the modal was last opened by Add Student, and the update of X, and
\* of no other student, when it was last opened by Edit for X.
C30_SubmitMatchesOpening ==
    [][(ev'.op = "studentFormSubmit" /\ Len(studentWrites') > Len(studentWrites)) =>
          LET w == studentWrites'[Len(studentWrites')]
          IN  IF modalStudent.openedFor = NoStudentId
              THEN w.method = "POST"
              ELSE w.method = "PATCH" /\ w.id = modalStudent.openedFor]_vars


=============================================================================
